---- MODULE Spec2Model ----
(***************************************************************************)
(* A model of the agentic tool-calling loop of opendev:                    *)
(*   - AIHandler.get_response / _tool_signatures  (app/logic/ai_handler.py)*)
(*   - ToolOrchestrator.execute_tools      (app/logic/tool_orchestrator.py)*)
(*   - ToolManager.execute / _validate_arguments (app/tools/tool_manager.py)*)
(*   - HttpService.chat / summarize_conversation (app/core/http_service.py)*)
(*   - TurnOrchestrator._run_plan_turn      (app/logic/turn_orchestrator.py)*)
(*   - OpenDevApp.compact_conversation                     (app/ui/app.py) *)
(*                                                                         *)
(* Strings are sequences of tokens; a JSON value is a tagged record; a     *)
(* Python dict is the sequence of its key/value pairs in insertion order.  *)
(***************************************************************************)
EXTENDS Integers, Sequences, FiniteSets, TLC

VARIABLES
    \* ---- AIHandler._tool_signatures ----
    sig_tool_calls,     \* the tool_calls list handed to _tool_signatures
    sig_result,         \* the list of signatures it returned
    sig_pc,             \* "ready" | "done"
    \* ---- ToolManager.execute ----
    tm_call,            \* the last call of execute: its name, arguments and the
                        \* handler's behaviour; NoCall before the first
    tm_exec,            \* what that call did (see Execute)
    session_tracker,    \* tool_calls_total / _success / _failure, the number of
                        \* record_tool_execution calls, and the model usage
    \* ---- HttpService.chat ----
    provider,           \* what the remote API rejects
    api_key,            \* TRUE iff the client has an API key
    _tool_calling_disabled,
    chat_pc,            \* where the chat generator stands
    chat_args,          \* the stream flag and whether tools were supplied
    provider_calls,     \* the requests this invocation sent to the provider
    chat_frames,        \* the chunks the response stream has delivered
    tool_calls_acc,     \* index -> {id, name, arguments}, in first-seen order
    chat_usage,         \* the local input_tokens / output_tokens
    chat_events,        \* the (kind, payload) pairs yielded to the consumer
    chat_emitted,       \* how many accumulated tool calls have been yielded
    chat_error,         \* the message of the exception that left chat
    chat_log,           \* one entry per finished invocation
    \* ---- OpenDevApp, TurnOrchestrator, AIHandler, ToolOrchestrator ----
    http_service,       \* TRUE iff the app has a chat client
    mode,               \* get_current_mode()
    messages,           \* the in-memory transcript
    storage,            \* the rows save_message stored for the conversation
    is_streaming,
    plan_tracker,
    active_agent,
    notifications,      \* the notifications shown so far
    turn_pc,            \* where the input handler stands in the user turn
    loop_pc,            \* where get_response stands
    pending_writes,
    tool_calls,         \* the tool calls of the current round
    tasks,              \* execute_tools: one run_one task per call
    arrival,            \* execute_tools: the indexes in completion order
    compact_pc,         \* where compact_conversation stands
    turn,               \* what the current user turn has done so far
    round,              \* what the last execute_tools did
    compaction,         \* what the last /compact did
    conversation_id,    \* the conversation the transcript belongs to
    is_shutting_down,
    write_ids,          \* the conversation_id of each of the pending writes
    row_convs,          \* the conversation_id column of the stored rows
    appended,           \* every message appended to a transcript, in order
    finalizer,          \* what the finally block of get_response has done
    stream_in,          \* the events of the round's stream and how far
                        \* "async for" has consumed them
    commands,           \* how many commands the user has issued
    \* ---- Storage: the tables, the caches and the calls in progress ----
    tables,             \* the rows of conversations and messages
    _conversations_cache,
    _messages_cache,
    store_calls,        \* the Storage calls in progress, one per task
    store_read,         \* the last read that returned
    store_clock,        \* datetime.now()
    \* ---- DatabaseManager ----
    _db,                \* the manager's handle: a connection or None
    connections,        \* every connection opened so far: open or closed
    db_calls,           \* the get_db / execute / shutdown calls in progress
    \* ---- the run_ai workers ----
    workers,            \* every run_ai worker started so far and where it is
    pending_user_queue, \* the inputs queued while a run was streaming
    \* ---- DatabaseManager: the retry loop of one statement ----
    db_query,           \* the execute / fetchall / fetchone call and its attempts
    \* ---- Storage: what was read, in the order the reads returned ----
    read_log,           \* the conversation of every get_messages that returned
    \* ---- Storage: the history of user inputs behind its cache ----
    history,            \* the content column of the rows of the history table
    _recent_user_history_cache,
    history_calls,      \* the save_message / get_recent_user_history calls in progress
    history_read        \* the last get_recent_user_history that returned

sigVars == <<sig_tool_calls, sig_result, sig_pc>>
tmVars == <<tm_call, tm_exec>>
chatVars == <<provider, api_key, _tool_calling_disabled, chat_pc, chat_args,
              provider_calls, chat_frames, tool_calls_acc, chat_usage, chat_events,
              chat_emitted, chat_error, chat_log>>

appVars == <<http_service, mode, messages, storage, is_streaming, plan_tracker,
             active_agent, notifications, turn_pc, loop_pc, pending_writes,
             tool_calls, tasks, arrival, compact_pc, turn, round, compaction>>

runVars == <<conversation_id, is_shutting_down, write_ids, row_convs, appended,
             finalizer, stream_in, commands>>

storeVars == <<tables, _conversations_cache, _messages_cache, store_calls, store_read,
               store_clock>>

dbVars == <<_db, connections, db_calls>>

workerVars == <<workers, pending_user_queue>>

historyVars == <<history, _recent_user_history_cache, history_calls, history_read>>

persistVars == <<db_query, read_log, historyVars>>

vars == <<sigVars, tmVars, session_tracker, chatVars, appVars, runVars, storeVars,
          dbVars, workerVars, persistVars>>

----------------------------------------------------------------------------
(* Bounds of the model *)

\* integer leaves of argument objects are 1..MaxInt
MaxInt == 2
\* an argument object handed to ToolManager.execute has at most MaxArgKeys keys
MaxArgKeys == 3
\* a response stream delivers at most MaxFrames chunks
MaxFrames == 3
\* HttpService.chat is invoked at most MaxChats times on one client
MaxChats == 2
\* the user submits at most MaxTurns messages
MaxTurns == 1
\* a user turn issues at most MaxTurnRequests streamed chat requests
MaxTurnRequests == 3
\* a long turn, of fresh tool calls only, issues at most MaxLongTurnRequests
MaxLongTurnRequests == 26
\* one round dispatches at most MaxBatch tool calls
MaxBatch == 4
\* /compact is given at most MaxCompactions times
MaxCompactions == 1

----------------------------------------------------------------------------
(* JSON values, json.dumps and json.loads *)

\* every key an argument object may carry, in Python's string order
KeyOrder ==
    <<"context", "end_line", "extra", "filepath", "start_line", "task", "to_agent", "url">>
AllKeys == {KeyOrder[i] : i \in 1..Len(KeyOrder)}
Rank(k) == CHOOSE i \in 1..Len(KeyOrder) : KeyOrder[i] = k

\* the string values that occur
StrVals == {"a.py", "coder", "reviewer", "nobody", "fix the bug", "hi", "   ", ""}
IntUniverse == 0..40

JInt(n) == [t |-> "int", v |-> n]
JStr(s) == [t |-> "str", v |-> s]
JBool(b) == [t |-> "bool", v |-> b]
JObj(ps) == [t |-> "obj", v |-> ps]
EmptyObj == JObj(<<>>)

\* a dict: pairs in insertion order, no key twice
DistinctKeys(ps) == \A i, j \in 1..Len(ps) : ps[i].k = ps[j].k => i = j
PairSeqs(KeySet, Vals, maxLen) ==
    {ps \in UNION {[1..n -> [k : KeySet, v : Vals]] : n \in 0..maxLen} :
        DistinctKeys(ps)}

DictKeys(ps) == {ps[i].k : i \in 1..Len(ps)}
DictGet(ps, k) == ps[CHOOSE i \in 1..Len(ps) : ps[i].k = k].v
\* d[k] = v: an existing key keeps its place, a new key goes last
DictSet(ps, k, v) ==
    IF k \in DictKeys(ps)
    THEN [i \in 1..Len(ps) |-> IF ps[i].k = k THEN [k |-> k, v |-> v] ELSE ps[i]]
    ELSE Append(ps, [k |-> k, v |-> v])

\* Python's == on JSON values: dicts compare as mappings, whatever the order
RECURSIVE StructEq(_, _)
StructEq(x, y) ==
    IF x.t # y.t THEN FALSE
    ELSE IF x.t # "obj" THEN x.v = y.v
    ELSE /\ Len(x.v) = Len(y.v)
         /\ \A i \in 1..Len(x.v) : \E j \in 1..Len(y.v) :
                /\ x.v[i].k = y.v[j].k
                /\ StructEq(x.v[i].v, y.v[j].v)

\* every insertion order of the same mapping, at every nesting depth
RECURSIVE Reorderings(_)
Reorderings(x) ==
    IF x.t # "obj" THEN {x}
    ELSE LET ps == x.v
             n == Len(ps)
             Sub == UNION {Reorderings(ps[j].v) : j \in 1..n}
         IN UNION {
              {JObj([i \in 1..n |-> [k |-> ps[p[i]].k, v |-> w[i]]]) :
                 w \in {f \in [1..n -> Sub] :
                          \A i \in 1..n : f[i] \in Reorderings(ps[p[i]].v)}}
              : p \in Permutations(1..n)}

SortByKey(ps) == SortSeq(ps, LAMBDA x, y : Rank(x.k) < Rank(y.k))

\* json.dumps(value, sort_keys=sort_keys): the text as a token sequence
RECURSIVE JsonDumps(_, _)
RECURSIVE DumpPairs(_, _)
JsonDumps(x, sort_keys) ==
    CASE x.t = "int" -> <<ToString(x.v)>>
      [] x.t = "str" -> <<ToString(x.v)>>
      [] x.t = "bool" -> <<IF x.v THEN "true" ELSE "false">>
      [] x.t = "obj" ->
            <<"{">> \o DumpPairs(IF sort_keys THEN SortByKey(x.v) ELSE x.v, sort_keys)
            \o <<"}">>
DumpPairs(ps, sort_keys) ==
    IF Len(ps) = 0 THEN <<>>
    ELSE <<ToString(ps[1].k), ":">> \o JsonDumps(ps[1].v, sort_keys)
         \o (IF Len(ps) > 1 THEN <<",">> ELSE <<>>)
         \o DumpPairs(Tail(ps), sort_keys)

IntToks == {ToString(n) : n \in IntUniverse}
StrToks == {ToString(s) : s \in AllKeys \cup StrVals}
IntOf(tk) == CHOOSE n \in IntUniverse : ToString(n) = tk
Unquote(tk) == CHOOSE s \in AllKeys \cup StrVals : ToString(s) = tk

ParseFail == [ok |-> FALSE, value |-> EmptyObj, next |-> 0]
ParseOk(v, n) == [ok |-> TRUE, value |-> v, next |-> n]

\* a recursive-descent reading of one JSON value starting at token i
RECURSIVE ParseValue(_, _)
RECURSIVE ParseMembers(_, _, _)
ParseValue(toks, i) ==
    IF i > Len(toks) THEN ParseFail
    ELSE LET tk == toks[i] IN
         CASE tk \in IntToks -> ParseOk(JInt(IntOf(tk)), i + 1)
           [] tk \in StrToks -> ParseOk(JStr(Unquote(tk)), i + 1)
           [] tk = "true" -> ParseOk(JBool(TRUE), i + 1)
           [] tk = "false" -> ParseOk(JBool(FALSE), i + 1)
           [] tk = "{" ->
                IF i + 1 <= Len(toks) /\ toks[i + 1] = "}"
                THEN ParseOk(EmptyObj, i + 2)
                ELSE ParseMembers(toks, i + 1, <<>>)
           [] OTHER -> ParseFail
ParseMembers(toks, i, acc) ==
    IF i + 1 > Len(toks) \/ toks[i] \notin StrToks \/ toks[i + 1] # ":"
    THEN ParseFail
    ELSE LET r == ParseValue(toks, i + 2) IN
         IF ~r.ok \/ r.next > Len(toks) THEN ParseFail
         ELSE LET acc2 == DictSet(acc, Unquote(toks[i]), r.value) IN
              CASE toks[r.next] = "}" -> ParseOk(JObj(acc2), r.next + 1)
                [] toks[r.next] = "," -> ParseMembers(toks, r.next + 1, acc2)
                [] OTHER -> ParseFail

\* json.loads(text): ok = FALSE stands for json.JSONDecodeError
JsonLoads(toks) ==
    LET r == ParseValue(toks, 1) IN
    IF r.ok /\ r.next = Len(toks) + 1
    THEN [ok |-> TRUE, value |-> r.value]
    ELSE [ok |-> FALSE, value |-> EmptyObj]

\* str.startswith
StartsWith(s, prefix) ==
    Len(s) >= Len(prefix) /\ SubSeq(s, 1, Len(prefix)) = prefix

----------------------------------------------------------------------------
(* ToolManager: the registry, _validate_arguments and execute *)

ErrorPrefix == <<"Error", ":">>
HANDOFF_PREFIX == <<"__HANDOFF__", ":">>
AgentNames == {"general", "coder", "explorer", "reviewer", "architect", "security"}

JNull == [t |-> "null", v |-> 0]

\* create_tool_manager: the registered tools that are modelled
RegisteredTools == {"read_file", "get_working_dir", "read_webpage", "handoff_agent"}

\* the "parameters" object each tool was registered with
Schema(name) ==
    CASE name = "read_file" ->
            [properties |-> [filepath |-> [type |-> "string"],
                             start_line |-> [type |-> "integer"],
                             end_line |-> [type |-> "integer"]],
             required |-> <<"filepath">>]
      [] name = "get_working_dir" ->
            [properties |-> <<>>, required |-> <<>>]
      [] name = "read_webpage" ->
            [properties |-> [url |-> [type |-> "string"]],
             required |-> <<"url">>]
      [] name = "handoff_agent" ->
            [properties |-> [to_agent |-> [type |-> "string",
                                           enum |-> {JStr(a) : a \in AgentNames}],
                             task |-> [type |-> "string", minLength |-> 3],
                             context |-> [type |-> "string"]],
             required |-> <<"to_agent", "task">>]

\* the keyword parameters of each handler function, and those without a default
HandlerParams(name) ==
    CASE name = "read_file" ->
            [all |-> {"filepath", "start_line", "end_line"}, needed |-> {"filepath"}]
      [] name = "get_working_dir" -> [all |-> {}, needed |-> {}]
      [] name = "read_webpage" -> [all |-> {"url"}, needed |-> {"url"}]
      [] name = "handoff_agent" ->
            [all |-> {"to_agent", "task", "context"}, needed |-> {"to_agent", "task"}]

\* isinstance(value, int): Python's bool is an int
IsInstanceInt(value) == value.t \in {"int", "bool"}
NumOf(value) == IF value.t = "bool" THEN (IF value.v THEN 1 ELSE 0) ELSE value.v

_schema_type_matches(value, expected) ==
    CASE expected = "string" -> value.t = "str"
      [] expected = "integer" -> IsInstanceInt(value) /\ value.t # "bool"
      [] expected = "number" -> IsInstanceInt(value) /\ value.t # "bool"
      [] expected = "boolean" -> value.t = "bool"
      [] expected = "array" -> value.t = "arr"
      [] expected = "object" -> value.t = "obj"
      [] OTHER -> TRUE

ValidationError(name, what) == ErrorPrefix \o <<" Invalid arguments for ", name>> \o what
NoError == <<>>

\* the checks of one key/value pair, in the order of the loop body
PropertyError(name, key, value, prop) ==
    IF "type" \in DOMAIN prop /\ ~_schema_type_matches(value, prop.type)
    THEN ValidationError(name, <<key, " must be ", prop.type>>)
    ELSE IF "enum" \in DOMAIN prop /\ value \notin prop.enum
    THEN ValidationError(name, <<key, " must be one of">>)
    ELSE IF /\ IsInstanceInt(value)
            /\ "minimum" \in DOMAIN prop
            /\ NumOf(value) < prop.minimum
    THEN ValidationError(name, <<key, " must be >= minimum">>)
    ELSE IF /\ IsInstanceInt(value)
            /\ "maximum" \in DOMAIN prop
            /\ NumOf(value) > prop.maximum
    THEN ValidationError(name, <<key, " must be <= maximum">>)
    ELSE IF /\ value.t = "str"
            /\ "minLength" \in DOMAIN prop
            /\ Len(value.v) < prop.minLength
    THEN ValidationError(name, <<key, " length must be >= minLength">>)
    ELSE IF /\ value.t = "str"
            /\ "maxLength" \in DOMAIN prop
            /\ Len(value.v) > prop.maxLength
    THEN ValidationError(name, <<key, " length must be <= maxLength">>)
    ELSE NoError

\* for key, value in arguments.items(): the first violation returns
RECURSIVE FirstPropertyError(_, _, _, _)
FirstPropertyError(name, ps, properties, i) ==
    IF i > Len(ps) THEN NoError
    ELSE IF ps[i].k \notin DOMAIN properties
    THEN FirstPropertyError(name, ps, properties, i + 1)
    ELSE LET e == PropertyError(name, ps[i].k, ps[i].v, properties[ps[i].k]) IN
         IF e # NoError THEN e
         ELSE FirstPropertyError(name, ps, properties, i + 1)

\* a slip: the required keys are not looked for
MissingNotChecked(required, ps) == <<>>

Missing(required, ps) == SelectSeq(required, LAMBDA key : key \notin DictKeys(ps))

\* a slip: keys outside the declared properties are let through
UnknownNotChecked(properties, ps) == <<>>

\* [key for key in arguments if properties and key not in properties]
Unknown(properties, ps) ==
    SelectSeq([i \in 1..Len(ps) |-> ps[i].k],
              LAMBDA key : DOMAIN properties # {} /\ key \notin DOMAIN properties)

\* _validate_arguments: the pair (validated arguments, error); error = NoError is None
_validate_arguments(name, schema, arguments) ==
    LET args == IF arguments = JNull THEN EmptyObj ELSE arguments IN
    IF args.t # "obj"
    THEN [args |-> JNull, error |-> ValidationError(name, <<" expected object">>)]
    ELSE IF Missing(schema.required, args.v) # <<>>
    THEN [args |-> JNull,
          error |-> ValidationError(name, <<" missing required ">>
                                          \o Missing(schema.required, args.v))]
    ELSE IF Unknown(schema.properties, args.v) # <<>>
    THEN [args |-> JNull,
          error |-> ValidationError(name, <<" unknown argument(s) ">>
                                          \o Unknown(schema.properties, args.v))]
    ELSE LET e == FirstPropertyError(name, args.v, schema.properties, 1) IN
         IF e # NoError THEN [args |-> JNull, error |-> e]
         ELSE [args |-> args, error |-> NoError]

\* str.strip on the strings that occur
Strip(s) == IF s = "   " THEN "" ELSE s

\* What a handler does once called with keyword arguments: it returns a string or
\* raises. outcome = "fail" is the environment failing under it (file missing,
\* host unreachable, working directory deleted).
HandlerOutcomes == {"ok", "fail"}
HandlerBody(name, ps, outcome) ==
    CASE name = "read_file" ->
            IF outcome = "ok"
            THEN [raised |-> FALSE, failed |-> FALSE, value |-> <<"file text">>]
            ELSE [raised |-> FALSE, failed |-> TRUE,
                  value |-> ErrorPrefix \o <<" File not found">>]
      [] name = "read_webpage" ->
            IF outcome = "ok"
            THEN [raised |-> FALSE, failed |-> FALSE, value |-> <<"page text">>]
            ELSE [raised |-> FALSE, failed |-> TRUE,
                  value |-> <<"Error", " fetching ", "url">>]
      [] name = "get_working_dir" ->
            IF outcome = "ok"
            THEN [raised |-> FALSE, failed |-> FALSE, value |-> <<"/work">>]
            ELSE [raised |-> TRUE, failed |-> TRUE, value |-> <<"FileNotFoundError">>]
      [] name = "handoff_agent" ->
            LET to_agent == DictGet(ps, "to_agent").v
                task == DictGet(ps, "task").v
                context == IF "context" \in DictKeys(ps)
                           THEN DictGet(ps, "context").v ELSE ""
            IN IF to_agent \notin AgentNames
               THEN [raised |-> FALSE, failed |-> TRUE,
                     value |-> ErrorPrefix \o <<" Invalid handoff target.">>]
               ELSE IF Strip(task) = ""
               THEN [raised |-> FALSE, failed |-> TRUE,
                     value |-> ErrorPrefix \o <<" task is required for handoff_agent">>]
               ELSE [raised |-> FALSE, failed |-> FALSE,
                     value |-> HANDOFF_PREFIX \o JsonDumps(
                        JObj(<< [k |-> "to_agent", v |-> JStr(to_agent)],
                                [k |-> "task", v |-> JStr(Strip(task))],
                                [k |-> "context", v |-> JStr(Strip(context))] >>),
                        FALSE)]

\* self._tools[name](**validated_args): Python binds the keywords first and raises
\* TypeError when one is unexpected or a parameter without default is missing
Binds(name, ps) ==
    /\ DictKeys(ps) \subseteq HandlerParams(name).all
    /\ HandlerParams(name).needed \subseteq DictKeys(ps)

ExecResult(raised, result, called, path, failed, recorded, ran) ==
    [raised |-> raised, result |-> result, called |-> called, path |-> path,
     failed |-> failed, recorded |-> recorded, ran |-> ran]

\* a slip: the handler is called outside the try block
ExecuteUncaught(name, arguments, outcome) ==
    IF name \notin RegisteredTools
    THEN ExecResult(FALSE, ErrorPrefix \o <<" Tool ", name, " not found">>,
                    FALSE, "unknown_tool", TRUE, "failure", FALSE)
    ELSE LET v == _validate_arguments(name, Schema(name), arguments) IN
         IF v.error # NoError
         THEN ExecResult(FALSE, v.error, FALSE, "validation_error", TRUE, "failure", FALSE)
         ELSE IF ~Binds(name, v.args.v)
         THEN ExecResult(TRUE, <<"TypeError">>, TRUE, "type_error", TRUE, "none", FALSE)
         ELSE LET h == HandlerBody(name, v.args.v, outcome) IN
              IF h.raised
              THEN ExecResult(TRUE, h.value, TRUE, "handler_exception", TRUE, "none", FALSE)
              ELSE ExecResult(FALSE, h.value, TRUE, "handler_returned", h.failed,
                              IF StartsWith(h.value, ErrorPrefix)
                              THEN "failure" ELSE "success", TRUE)

\* ToolManager.execute(name, arguments). The record tells whether it raised, the
\* string it returned, whether the handler was called, the path taken, whether
\* that path is a failure, and what it recorded with the session tracker
\* (record_tool_call's success flag, and whether record_tool_execution ran).
Execute(name, arguments, outcome) ==
    IF name \notin RegisteredTools
    THEN ExecResult(FALSE, ErrorPrefix \o <<" Tool ", name, " not found">>,
                    FALSE, "unknown_tool", TRUE, "failure", FALSE)
    ELSE LET v == _validate_arguments(name, Schema(name), arguments) IN
         IF v.error # NoError
         THEN ExecResult(FALSE, v.error, FALSE, "validation_error", TRUE, "failure", FALSE)
         ELSE IF ~Binds(name, v.args.v)
         THEN ExecResult(FALSE,
                         ErrorPrefix \o <<" Invalid arguments for ", name, "TypeError">>,
                         TRUE, "type_error", TRUE, "failure", TRUE)
         ELSE LET h == HandlerBody(name, v.args.v, outcome) IN
              IF h.raised
              THEN ExecResult(FALSE, ErrorPrefix \o h.value,
                              TRUE, "handler_exception", TRUE, "failure", TRUE)
              ELSE ExecResult(FALSE, h.value, TRUE, "handler_returned", h.failed,
                              IF StartsWith(h.value, ErrorPrefix)
                              THEN "failure" ELSE "success", TRUE)

NoCall == [name |-> "", arguments |-> JNull, outcome |-> "ok"]
NoExec == ExecResult(FALSE, <<>>, FALSE, "none", FALSE, "none", FALSE)

TrackerInit ==
    [tool_calls_total |-> 0, tool_calls_success |-> 0, tool_calls_failure |-> 0,
     tool_executions |-> 0, requests |-> 0, input_tokens |-> 0, output_tokens |-> 0]

\* session_tracker.record_tool_call / record_tool_execution, as execute calls them
Record(tr, e) ==
    [tool_calls_total |-> tr.tool_calls_total + (IF e.recorded = "none" THEN 0 ELSE 1),
     tool_calls_success |-> tr.tool_calls_success + (IF e.recorded = "success" THEN 1 ELSE 0),
     tool_calls_failure |-> tr.tool_calls_failure + (IF e.recorded = "failure" THEN 1 ELSE 0),
     tool_executions |-> tr.tool_executions + (IF e.ran THEN 1 ELSE 0),
     requests |-> tr.requests, input_tokens |-> tr.input_tokens,
     output_tokens |-> tr.output_tokens]

TmInit ==
    /\ tm_call = NoCall
    /\ tm_exec = NoExec
    /\ session_tracker = TrackerInit

\* the names and arguments execute is called with
CallNames == RegisteredTools \cup {"no_such_tool"}
ArgVals == {JStr("a.py"), JStr("coder"), JStr("hi"), JStr("   "), JBool(TRUE)}
           \cup {JInt(n) : n \in 1..MaxInt}
RelevantKeys(name) ==
    IF name \in RegisteredTools
    THEN DOMAIN Schema(name).properties \cup {"extra"}
    ELSE {"extra"}
CallArguments(name) ==
    {JObj(ps) : ps \in PairSeqs(RelevantKeys(name), ArgVals, MaxArgKeys)}
    \cup {JNull, JInt(1)}

ToolExecute(name, arguments, outcome) ==
    /\ tm_call' = [name |-> name, arguments |-> arguments, outcome |-> outcome]
    /\ tm_exec' = Execute(name, arguments, outcome)
    /\ session_tracker' = Record(session_tracker, tm_exec')

ToolExecuteAny ==
    /\ tm_call = NoCall
    /\ \E name \in CallNames : \E arguments \in CallArguments(name) :
          \E outcome \in HandlerOutcomes : ToolExecute(name, arguments, outcome)
    /\ UNCHANGED <<sigVars, chatVars, appVars, runVars, storeVars, dbVars, workerVars, persistVars>>

----------------------------------------------------------------------------
(* HttpService.chat *)

\* An error message is the set of the phrases it contains.
ErrStreamOptions == {"stream_options", "not supported"}
ErrToolCalling == {"tool calling", "not supported"}
ErrRateLimit == {"429"}
ErrOther == {"connection reset"}
ErrJsonDecode == {"JSONDecodeError"}

_is_tool_calling_unsupported(error) ==
    \/ "tool calling" \in error /\ "not supported" \in error
    \/ "param': 'tool calling'" \in error

_is_stream_options_unsupported(error) ==
    /\ "stream_options" \in error
    /\ \/ "unsupported" \in error
       \/ "not supported" \in error
       \/ "unknown" \in error

\* no error: the provider sent a response
Accepted == {}

\* a request to the provider, and the error it was answered with once the
\* except clause has caught one
Request(stream, stream_options, tools) ==
    [stream |-> stream, stream_options |-> stream_options, tools |-> tools,
     answer |-> Accepted]
Answered(req, error) == [req EXCEPT !.answer = error]

\* What the provider may answer to a request: a response or an error message.
\* It rejects the options it does not support; a flaky one also fails at will.
ProviderAnswers(req) ==
    LET rejections ==
            (IF req.stream_options /\ provider.rejects_stream_options
             THEN {ErrStreamOptions} ELSE {})
            \cup (IF req.tools /\ provider.rejects_tools THEN {ErrToolCalling} ELSE {})
    IN IF rejections # {} THEN rejections \cup {UNION rejections}
       ELSE {Accepted} \cup (IF provider.flaky THEN {ErrRateLimit, ErrOther} ELSE {})

\* one tool-call delta of a streamed chunk; a missing function is two empty parts
ToolDelta(index, id, name, arguments) ==
    [index |-> index, id |-> id, name |-> name, arguments |-> arguments]

Chunk(choices, usage, reasoning, content, tcs) ==
    [choices |-> choices, usage |-> usage, reasoning |-> reasoning,
     content |-> content, tool_calls |-> tcs]

UsageFrame == Chunk(FALSE, TRUE, "", "", <<>>)
ReportedUsage == [input |-> 5, output |-> 2]
NoUsage == [input |-> 0, output |-> 0]
\* len(str(full_messages)) // 4
EstimatedInput == 1

ArgsOpen == <<"{", ToString("filepath"), ":">>
ArgsClose == <<ToString("a.py"), "}">>

\* the chunks a stream is made of
ToolDeltas ==
    UNION {{ToolDelta(i, "call_a", "read_f", ArgsOpen),
            ToolDelta(i, "", "ile", ArgsClose),
            ToolDelta(i, "call_b", "", <<>>),
            ToolDelta(i, "", "", ArgsClose),
            ToolDelta(i, "call_a", "read_f", <<>>)} : i \in 0..1}
RichChunks ==
    {UsageFrame, Chunk(TRUE, FALSE, "hm", "", <<>>)}
    \cup {Chunk(TRUE, FALSE, "", c, <<>>) : c \in {"Hel", "lo "}}
    \cup {Chunk(TRUE, FALSE, "", "", <<d>>) : d \in ToolDeltas}
FewChunks ==
    {UsageFrame, Chunk(TRUE, FALSE, "", "Hel", <<>>),
     Chunk(TRUE, FALSE, "", "", <<ToolDelta(0, "call_a", "read_f", ArgsOpen \o ArgsClose)>>),
     Chunk(TRUE, FALSE, "", "", <<ToolDelta(1, "call_b", "read_file", ArgsOpen)>>)}

\* a slip: the name fragment replaces what was accumulated
AccumulateOverwriting(acc, tc) ==
    LET acc1 == IF tc.index \in DictKeys(acc) THEN acc
                ELSE DictSet(acc, tc.index,
                             [id |-> tc.id, name |-> "", arguments |-> <<>>])
        cur == DictGet(acc1, tc.index)
    IN DictSet(acc1, tc.index,
               [id |-> IF tc.id # "" THEN tc.id ELSE cur.id,
                name |-> IF tc.name # "" THEN tc.name ELSE cur.name,
                arguments |-> cur.arguments \o tc.arguments])

\* the body of "for tc in delta.tool_calls"
Accumulate(acc, tc) ==
    LET acc1 == IF tc.index \in DictKeys(acc) THEN acc
                ELSE DictSet(acc, tc.index,
                             [id |-> tc.id, name |-> "", arguments |-> <<>>])
        cur == DictGet(acc1, tc.index)
    IN DictSet(acc1, tc.index,
               [id |-> IF tc.id # "" THEN tc.id ELSE cur.id,
                name |-> cur.name \o tc.name,
                arguments |-> cur.arguments \o tc.arguments])

RECURSIVE AccumulateAll(_, _)
AccumulateAll(acc, tcs) ==
    IF Len(tcs) = 0 THEN acc
    ELSE AccumulateAll(Accumulate(acc, Head(tcs)), Tail(tcs))

Event(kind, data) == [kind |-> kind, data |-> data]

\* a slip: the tool-call deltas of a chunk are yielded with its text
DeltaEventsEager(chunk) ==
    (IF chunk.reasoning # "" THEN <<Event("reasoning", chunk.reasoning)>> ELSE <<>>)
    \o (IF chunk.content # "" THEN <<Event("content", chunk.content)>> ELSE <<>>)
    \o [i \in 1..Len(chunk.tool_calls) |->
           Event("tool_call", [id |-> chunk.tool_calls[i].id,
                               name |-> chunk.tool_calls[i].name,
                               arguments |-> EmptyObj])]

\* the events one streamed chunk with choices yields at once
DeltaEvents(chunk) ==
    (IF chunk.reasoning # "" THEN <<Event("reasoning", chunk.reasoning)>> ELSE <<>>)
    \o (IF chunk.content # "" THEN <<Event("content", chunk.content)>> ELSE <<>>)

\* a slip: the arguments are dropped whether they parse or not
ToolCallEventEmpty(tc) ==
    Event("tool_call", [id |-> tc.id, name |-> tc.name, arguments |-> EmptyObj])

\* the tool_call event of one accumulated call: a JSONDecodeError gives {}
ToolCallEvent(tc) ==
    LET parsed == JsonLoads(tc.arguments)
        args == IF Len(tc.arguments) = 0 \/ ~parsed.ok THEN EmptyObj ELSE parsed.value
    IN Event("tool_call", [id |-> tc.id, name |-> tc.name, arguments |-> args])

\* a slip: the finally block records nothing
RecordApiSkipped(tr, usage) == tr

\* session_tracker.record_api_call in the finally block
RecordApi(tr, usage) ==
    [tr EXCEPT !.requests = @ + 1,
               !.input_tokens = @ + (IF usage.input # 0 THEN usage.input
                                     ELSE EstimatedInput),
               !.output_tokens = @ + usage.output]

\* what is known of a finished invocation: the requests it sent, how it ended,
\* the error that ended it and the error chat raised for it
LogEntry(outcome) ==
    [stream |-> chat_args.stream, calls |-> provider_calls, outcome |-> outcome,
     error |-> {}, raised |-> {}]

ErrNoApiKey == {"No API key"}
RateLimitError == {"RateLimitError"}

\* a slip: the error is re-raised whatever its message
ClassifyUnchanged(error) == error

\* except Exception as e: "429" in str(e) gives RateLimitError, else e
Classify(error) == IF "429" \in error THEN RateLimitError ELSE error

\* a slip: the tools are sent although tool calling is disabled
FirstAttemptWithTools(stream, tools, disabled) == Request(stream, stream, tools)

\* the first request: openai_tools is None once tool calling is disabled, and
\* stream_options is set whenever the call streams
FirstAttempt(stream, tools, disabled) == Request(stream, stream, tools /\ ~disabled)

ChatIdle ==
    /\ provider = [rejects_stream_options |-> FALSE, rejects_tools |-> FALSE,
                   flaky |-> FALSE]
    /\ api_key = TRUE
    /\ _tool_calling_disabled = FALSE
    /\ chat_pc = "idle"
    /\ chat_args = [stream |-> TRUE, tools |-> FALSE]
    /\ provider_calls = <<>>
    /\ chat_frames = <<>>
    /\ tool_calls_acc = <<>>
    /\ chat_usage = NoUsage
    /\ chat_events = <<>>
    /\ chat_emitted = 0
    /\ chat_error = {}
    /\ chat_log = <<>>

ChatLocalsReset ==
    /\ chat_frames' = <<>>
    /\ tool_calls_acc' = <<>>
    /\ chat_usage' = NoUsage
    /\ chat_events' = <<>>
    /\ chat_emitted' = 0
    /\ chat_error' = {}

ChatOver == chat_pc \in {"idle", "done", "failed", "closed", "raised"}

\* chat(messages, tools, stream): up to the first request. Without an API key it
\* raises before the try block, so nothing is recorded.
ChatBegin(stream, tools, limit) ==
    /\ ChatOver
    /\ Len(chat_log) < limit
    /\ chat_args' = [stream |-> stream, tools |-> tools]
    /\ ChatLocalsReset
    /\ IF ~api_key
       THEN /\ chat_pc' = "raised"
            /\ provider_calls' = <<>>
            /\ chat_log' = Append(chat_log,
                    [stream |-> stream, calls |-> <<>>, outcome |-> "raised",
                     error |-> ErrNoApiKey, raised |-> ErrNoApiKey])
       ELSE /\ chat_pc' = "first_request"
            /\ provider_calls' = << FirstAttempt(stream, tools, _tool_calling_disabled) >>
            /\ chat_log' = chat_log
    /\ UNCHANGED <<provider, api_key, _tool_calling_disabled, session_tracker>>

\* leaving through "except Exception" and the finally block
ChatFails(error) ==
    /\ chat_pc' = "failed"
    /\ chat_error' = Classify(error)
    /\ session_tracker' = RecordApi(session_tracker, chat_usage)
    /\ chat_log' = Append(chat_log, [LogEntry("failed") EXCEPT !.error = error,
                                                             !.raised = Classify(error)])

ChatGotResponse ==
    /\ chat_pc' = IF chat_args.stream THEN "streaming" ELSE "response"
    /\ UNCHANGED <<chat_error, session_tracker, chat_log>>

\* a slip: the retry sends the same request again
RetryRequestUnchanged(req, error) == req

\* a slip: the tools are dropped first when the error names both
RetryRequestToolsFirst(req, error) ==
    IF req.tools /\ _is_tool_calling_unsupported(error)
    THEN Request(req.stream, req.stream_options, FALSE)
    ELSE Request(req.stream, FALSE, req.tools)

\* the request of the one retry, given the first request and its error
RetryRequest(req, error) ==
    IF req.stream_options /\ _is_stream_options_unsupported(error)
    THEN Request(req.stream, FALSE, req.tools)
    ELSE Request(req.stream, req.stream_options, FALSE)

\* the provider answers the first request
ChatFirstAnswer ==
    /\ chat_pc = "first_request"
    /\ \E answer \in ProviderAnswers(provider_calls[1]) :
          LET req == provider_calls[1] IN
          IF answer = Accepted
          THEN ChatGotResponse /\ UNCHANGED <<provider_calls, _tool_calling_disabled>>
          ELSE IF req.stream_options /\ _is_stream_options_unsupported(answer)
          THEN /\ provider_calls' = <<Answered(req, answer), RetryRequest(req, answer)>>
               /\ chat_pc' = "retry_request"
               /\ UNCHANGED <<_tool_calling_disabled, chat_error, session_tracker,
                              chat_log>>
          ELSE IF req.tools /\ _is_tool_calling_unsupported(answer)
          THEN /\ _tool_calling_disabled' = TRUE
               /\ provider_calls' = <<Answered(req, answer), RetryRequest(req, answer)>>
               /\ chat_pc' = "retry_request"
               /\ UNCHANGED <<chat_error, session_tracker, chat_log>>
          ELSE ChatFails(answer) /\ UNCHANGED <<provider_calls, _tool_calling_disabled>>
    /\ UNCHANGED <<provider, api_key, chat_args, chat_frames, tool_calls_acc,
                   chat_usage, chat_events, chat_emitted>>

\* the provider answers the retry: an error now propagates
ChatRetryAnswer ==
    /\ chat_pc = "retry_request"
    /\ \E answer \in ProviderAnswers(provider_calls[2]) :
          IF answer = Accepted THEN ChatGotResponse ELSE ChatFails(answer)
    /\ UNCHANGED <<provider, api_key, _tool_calling_disabled, chat_args,
                   provider_calls, chat_frames, tool_calls_acc, chat_usage,
                   chat_events, chat_emitted>>

\* one iteration of "async for chunk in response"
ChatConsumeChunk(chunk) ==
    /\ chat_pc = "streaming"
    /\ Len(chat_frames) < MaxFrames
    /\ chat_frames' = Append(chat_frames, chunk)
    /\ IF ~chunk.choices
       THEN /\ chat_usage' = IF chunk.usage THEN ReportedUsage ELSE chat_usage
            /\ UNCHANGED <<chat_events, tool_calls_acc>>
       ELSE /\ chat_events' = chat_events \o DeltaEvents(chunk)
            /\ tool_calls_acc' = AccumulateAll(tool_calls_acc, chunk.tool_calls)
            /\ UNCHANGED chat_usage
    /\ UNCHANGED <<provider, api_key, _tool_calling_disabled, chat_pc, chat_args,
                   provider_calls, chat_emitted, chat_error, chat_log,
                   session_tracker>>

\* the stream breaks while it is read
ChatStreamError ==
    /\ chat_pc = "streaming"
    /\ provider.flaky
    /\ \E error \in {ErrRateLimit, ErrOther} : ChatFails(error)
    /\ UNCHANGED <<provider, api_key, _tool_calling_disabled, chat_args,
                   provider_calls, chat_frames, tool_calls_acc, chat_usage,
                   chat_events, chat_emitted>>

\* the stream is exhausted: the accumulated calls are yielded next
ChatStreamEnd ==
    /\ chat_pc = "streaming"
    /\ chat_pc' = "emitting"
    /\ UNCHANGED <<provider, api_key, _tool_calling_disabled, chat_args,
                   provider_calls, chat_frames, tool_calls_acc, chat_usage,
                   chat_events, chat_emitted, chat_error, chat_log, session_tracker>>

\* one iteration of "for tc in tool_calls_acc.values()"
ChatYieldToolCall ==
    /\ chat_pc = "emitting"
    /\ chat_emitted < Len(tool_calls_acc)
    /\ chat_events' = Append(chat_events,
                             ToolCallEvent(tool_calls_acc[chat_emitted + 1].v))
    /\ chat_emitted' = chat_emitted + 1
    /\ UNCHANGED <<provider, api_key, _tool_calling_disabled, chat_pc, chat_args,
                   provider_calls, chat_frames, tool_calls_acc, chat_usage,
                   chat_error, chat_log, session_tracker>>

\* the generator returns: the finally block records the usage
ChatFinish ==
    /\ chat_pc = "emitting"
    /\ chat_emitted = Len(tool_calls_acc)
    /\ chat_pc' = "done"
    /\ session_tracker' = RecordApi(session_tracker, chat_usage)
    /\ chat_log' = Append(chat_log, LogEntry("done"))
    /\ UNCHANGED <<provider, api_key, _tool_calling_disabled, chat_args,
                   provider_calls, chat_frames, tool_calls_acc, chat_usage,
                   chat_events, chat_emitted, chat_error>>

\* the consumer leaves its "async for" at a yield: the generator is closed
ChatClose ==
    /\ chat_pc \in {"streaming", "emitting"}
    /\ Len(chat_events) > 0
    /\ chat_pc' = "closed"
    /\ session_tracker' = RecordApi(session_tracker, chat_usage)
    /\ chat_log' = Append(chat_log, LogEntry("closed"))
    /\ UNCHANGED <<provider, api_key, _tool_calling_disabled, chat_args,
                   provider_calls, chat_frames, tool_calls_acc, chat_usage,
                   chat_events, chat_emitted, chat_error>>

\* the message of a non-streamed response
Message(usage, reasoning, content, tcs) ==
    [usage |-> usage, reasoning |-> reasoning, content |-> content, tool_calls |-> tcs]
Messages ==
    {Message(u, r, c, tcs) :
        u \in BOOLEAN, r \in {"", "hm"}, c \in {"", "Hello"},
        tcs \in {<<>>,
                 <<ToolDelta(0, "call_a", "read_file", ArgsOpen \o ArgsClose)>>,
                 <<ToolDelta(0, "call_a", "read_file", ArgsOpen)>>,
                 <<ToolDelta(0, "call_a", "read_file", ArgsOpen),
                   ToolDelta(1, "call_b", "read_file", ArgsOpen \o ArgsClose)>>}}

\* the tool_call events of a non-streamed message, up to the first whose
\* arguments json.loads rejects
RECURSIVE MessageToolEvents(_)
MessageToolEvents(tcs) ==
    IF Len(tcs) = 0 \/ ~JsonLoads(Head(tcs).arguments).ok THEN <<>>
    ELSE <<Event("tool_call", [id |-> Head(tcs).id, name |-> Head(tcs).name,
                               arguments |-> JsonLoads(Head(tcs).arguments).value])>>
         \o MessageToolEvents(Tail(tcs))

\* the "if not stream" branch; the response is kept as the one frame of the
\* invocation
ChatRespond(msg) ==
    /\ chat_pc = "response"
    /\ chat_frames' = <<Chunk(TRUE, msg.usage, msg.reasoning, msg.content,
                              msg.tool_calls)>>
    /\ chat_usage' = IF msg.usage THEN ReportedUsage ELSE NoUsage
    /\ chat_events' =
          (IF msg.reasoning # "" THEN <<Event("reasoning", msg.reasoning)>> ELSE <<>>)
          \o (IF msg.content # "" THEN <<Event("content", msg.content)>> ELSE <<>>)
          \o MessageToolEvents(msg.tool_calls)
    /\ session_tracker' = RecordApi(session_tracker, chat_usage')
    /\ IF \A i \in 1..Len(msg.tool_calls) : JsonLoads(msg.tool_calls[i].arguments).ok
       THEN /\ chat_pc' = "done"
            /\ chat_error' = {}
            /\ chat_log' = Append(chat_log, LogEntry("done"))
       ELSE /\ chat_pc' = "failed"
            /\ chat_error' = Classify(ErrJsonDecode)
            /\ chat_log' = Append(chat_log,
                                  [LogEntry("failed") EXCEPT
                                      !.error = ErrJsonDecode,
                                      !.raised = Classify(ErrJsonDecode)])
    /\ UNCHANGED <<provider, api_key, _tool_calling_disabled, chat_args,
                   provider_calls, tool_calls_acc, chat_emitted>>

----------------------------------------------------------------------------
(* AIHandler._tool_signatures *)

SigKeys == {"filepath", "start_line"}
Leaves == {JInt(n) : n \in 1..MaxInt}
Obj1 == {JObj(ps) : ps \in PairSeqs(SigKeys, Leaves, Cardinality(SigKeys))}
Obj2 == {JObj(ps) : ps \in PairSeqs(SigKeys, Leaves \cup Obj1, Cardinality(SigKeys))}
SigNames == {"read_file", "handoff_agent"}

\* a slip: the arguments serialised in insertion order
ToolSignatureUnsorted(tc) == <<tc.name, ":">> \o JsonDumps(tc.arguments, FALSE)

\* f"{name}:{json.dumps(args, sort_keys=True, ensure_ascii=True)}"
ToolSignature(tc) == <<tc.name, ":">> \o JsonDumps(tc.arguments, TRUE)

_tool_signatures(tcs) == [i \in 1..Len(tcs) |-> ToolSignature(tcs[i])]

----------------------------------------------------------------------------
(* runtime_config *)

PLAN_MODE == "Plan"
BUILD_MODE == "Build"
APP_MODES == <<BUILD_MODE, PLAN_MODE>>
DEFAULT_AGENT_NAME == "coder"
PLAN_SKIP_TOKEN == <<"[NO_PLAN]">>
PLAN_MESSAGE_PREFIX == <<"[PLAN]", "\n">>
TOOL_MAX_ROUNDS == 24
TOOL_MAX_PARALLEL == 3

----------------------------------------------------------------------------
(* The transcript, the storage and the plan *)

Msg(role, content, reasoning, tcs, tool_call_id, name) ==
    [role |-> role, content |-> content, reasoning |-> reasoning, tool_calls |-> tcs,
     tool_call_id |-> tool_call_id, name |-> name]
UserMsg(content) == Msg("user", content, <<>>, <<>>, "", "")
SystemMsg(content) == Msg("system", content, <<>>, <<>>, "", "")
AssistantMsg(content) == Msg("assistant", content, <<>>, <<>>, "", "")
ToolMsg(tc, content) == Msg("tool", content, <<>>, <<>>, tc.id, tc.name)

\* storage.save_message(conversation_id, role, content, tool_calls, reasoning)
Row(role, content, tcs, reasoning) ==
    [role |-> role, content |-> content, tool_calls |-> tcs, reasoning |-> reasoning]
save_message(rows, role, content) == Append(rows, Row(role, content, <<>>, <<>>))
RowOf(w) == Row(w.role, w.content, w.tool_calls, w.reasoning)
\* storage.get_messages: the stored rows as transcript messages
MsgOf(row) == Msg(row.role, row.content, row.reasoning, row.tool_calls, "", "")

\* a conversation stored by an earlier session
OldConversation ==
    << Row("user", <<"hi">>, <<>>, <<>>), Row("assistant", <<"hello">>, <<>>, <<>>) >>

NoTracker == [active |-> FALSE, items |-> <<>>, completed |-> 0, message_index |-> -1]

Line(marker, text) == [marker |-> marker, text |-> text]
\* what generate_plan returns: nothing, the skip token, or the lines of a plan
Plans ==
    {<<Line("- ", "read the file"), Line("1. ", "fix the bug")>>,
     <<Line("", "fix the bug")>>}
NoPlan == <<>>
SkipPlan == <<Line("", "[NO_PLAN]")>>
PlanText(plan) == [i \in 1..Len(plan) |-> plan[i].marker \o plan[i].text]

_extract_plan_items(plan) ==
    LET stripped == SelectSeq(plan, LAMBDA l : l.text # "")
        items == [i \in 1..Len(stripped) |-> stripped[i].text]
    IN IF Len(items) = 0 THEN PlanText(plan) ELSE items

Min(a, b) == IF a < b THEN a ELSE b
Max(a, b) == IF a > b THEN a ELSE b

RECURSIVE FormatFrom(_, _, _)
FormatFrom(items, idx, done) ==
    IF idx > Len(items) THEN <<>>
    ELSE (IF idx > 1 THEN <<"\n">> ELSE <<>>)
         \o <<"- [", IF idx - 1 < done THEN "x" ELSE " ", "] ", items[idx]>>
         \o FormatFrom(items, idx + 1, done)
_format_plan_items(items, completed) ==
    FormatFrom(items, 1, Max(0, Min(completed, Len(items))))

\* the tracker's message is rewritten when its index is inside the transcript
PlanMessageUpdated(msgs, tracker, completed) ==
    IF 0 <= tracker.message_index /\ tracker.message_index < Len(msgs)
    THEN [msgs EXCEPT ![tracker.message_index + 1].content =
              PLAN_MESSAGE_PREFIX \o _format_plan_items(tracker.items, completed)]
    ELSE msgs

\* a slip: the count is not capped at the number of items
advance_plan_progress_uncapped(tracker, msgs, step_count) ==
    IF ~tracker.active \/ Len(tracker.items) = 0
    THEN [tracker |-> tracker, messages |-> msgs]
    ELSE LET completed == tracker.completed + Max(1, step_count)
         IN [tracker |-> [tracker EXCEPT !.completed = completed],
             messages |-> PlanMessageUpdated(msgs, tracker, completed)]

\* app.advance_plan_progress(step_count): the tracker and the transcript after it
advance_plan_progress(tracker, msgs, step_count) ==
    IF ~tracker.active \/ Len(tracker.items) = 0
    THEN [tracker |-> tracker, messages |-> msgs]
    ELSE LET completed == Max(0, Min(tracker.completed + Max(1, step_count),
                                     Len(tracker.items)))
         IN [tracker |-> [tracker EXCEPT !.completed = completed],
             messages |-> PlanMessageUpdated(msgs, tracker, completed)]

\* app.finalize_plan_progress()
finalize_plan_progress(tracker, msgs) ==
    IF ~tracker.active
    THEN [tracker |-> tracker, messages |-> msgs]
    ELSE [tracker |-> [tracker EXCEPT !.completed = Len(tracker.items),
                                      !.active = FALSE],
          messages |-> PlanMessageUpdated(msgs, tracker, Len(tracker.items))]

\* a slip: a handoff to the agent that is already active is applied
apply_agent_handoff_to_self(agent, to_agent, task, context) ==
    IF to_agent \notin AgentNames
    THEN [applied |-> FALSE,
          message |-> ErrorPrefix \o <<" Unknown handoff target ", to_agent>>]
    ELSE IF Strip(task) = ""
    THEN [applied |-> FALSE, message |-> ErrorPrefix \o <<" Handoff task cannot be empty.">>]
    ELSE [applied |-> TRUE,
          message |-> <<"Agent handoff from ", agent, " to ", to_agent,
                        ". Assigned task: ", Strip(task), ".">>
                      \o (IF Strip(context) # ""
                          THEN <<" Context: ", Strip(context), ".">> ELSE <<>>)]

\* app.apply_agent_handoff(to_agent, task, context)
apply_agent_handoff(agent, to_agent, task, context) ==
    IF to_agent \notin AgentNames
    THEN [applied |-> FALSE,
          message |-> ErrorPrefix \o <<" Unknown handoff target ", to_agent>>]
    ELSE IF Strip(task) = ""
    THEN [applied |-> FALSE, message |-> ErrorPrefix \o <<" Handoff task cannot be empty.">>]
    ELSE IF to_agent = agent
    THEN [applied |-> FALSE,
          message |-> ErrorPrefix \o <<" Handoff target is already the active agent.">>]
    ELSE [applied |-> TRUE,
          message |-> <<"Agent handoff from ", agent, " to ", to_agent,
                        ". Assigned task: ", Strip(task), ".">>
                      \o (IF Strip(context) # ""
                          THEN <<" Context: ", Strip(context), ".">> ELSE <<>>)]

\* str(payload.get(key, "")).strip()
PayloadField(payload, key) ==
    IF payload.t = "obj" /\ key \in DictKeys(payload.v) /\ DictGet(payload.v, key).t = "str"
    THEN Strip(DictGet(payload.v, key).v) ELSE ""

NotApplied(result) ==
    [applied |-> FALSE, result |-> result, message |-> <<>>, to_agent |-> ""]

\* _apply_handoff_result once app.apply_agent_handoff has answered h
HandoffOutcome(h, to_agent) ==
    IF ~h.applied THEN NotApplied(h.message)
    ELSE [applied |-> TRUE, message |-> h.message, to_agent |-> to_agent,
          result |-> <<"Handoff applied. ">> \o h.message]

\* _apply_handoff_result once json.loads has answered payload
HandoffPayload(agent, payload) ==
    IF ~payload.ok THEN NotApplied(ErrorPrefix \o <<" Invalid handoff payload.">>)
    ELSE HandoffOutcome(apply_agent_handoff(agent,
                                            PayloadField(payload.value, "to_agent"),
                                            PayloadField(payload.value, "task"),
                                            PayloadField(payload.value, "context")),
                        PayloadField(payload.value, "to_agent"))

\* ToolOrchestrator._apply_handoff_result(result)
_apply_handoff_result(agent, result) ==
    IF ~StartsWith(result, HANDOFF_PREFIX) THEN NotApplied(result)
    ELSE HandoffPayload(agent,
                        JsonLoads(SubSeq(result, Len(HANDOFF_PREFIX) + 1, Len(result))))

----------------------------------------------------------------------------
(* ToolOrchestrator.execute_tools *)

ToolCall(id, name, arguments) == [id |-> id, name |-> name, arguments |-> arguments]
Task(state, exec) == [state |-> state, exec |-> exec]

\* a slip: the results are used in the order the tasks completed
ResultsAsCompleted(tcs, ts, arrived) ==
    LET kept == SelectSeq(arrived, LAMBDA idx : ~ts[idx].exec.raised)
    IN [i \in 1..Len(kept) |->
           [idx |-> kept[i], tc |-> tcs[kept[i]], result |-> ts[kept[i]].exec.result]]

\* asyncio.gather returns the results in the order of the tasks; the items that
\* are exceptions are dropped and the rest sorted by idx
OrderedResults(tcs, ts, arrived) ==
    LET raw_results == [i \in 1..Len(tcs) |->
                           [idx |-> i, tc |-> tcs[i], result |-> ts[i].exec.result,
                            raised |-> ts[i].exec.raised]]
        kept == SelectSeq(raw_results, LAMBDA item : ~item.raised)
    IN SortSeq([i \in 1..Len(kept) |->
                   [idx |-> kept[i].idx, tc |-> kept[i].tc, result |-> kept[i].result]],
               LAMBDA x, y : x.idx < y.idx)

\* a slip: a result that is an error is counted but gets no tool message
ApplyResultDroppingErrors(st, r, h) ==
    LET failed == StartsWith(h.result, ErrorPrefix)
        tool_msg == IF failed THEN <<>> ELSE <<ToolMsg(r.tc, h.result)>>
    IN [messages |-> (IF h.applied THEN Append(st.messages, SystemMsg(h.message))
                      ELSE st.messages) \o tool_msg,
        pending_writes |-> (IF h.applied
                            THEN Append(st.pending_writes, SystemMsg(h.result))
                            ELSE st.pending_writes) \o tool_msg,
        active_agent |-> IF h.applied THEN h.to_agent ELSE st.active_agent,
        handoffs |-> st.handoffs + (IF h.applied THEN 1 ELSE 0),
        failures |-> st.failures + (IF failed THEN 1 ELSE 0),
        successes |-> st.successes + (IF failed THEN 0 ELSE 1),
        exec_count |-> st.exec_count + 1]

\* one iteration of the loop over ordered_results, h being what the handoff
\* handling made of the result: st holds the transcript, the pending writes,
\* the active agent and the counts of the round
ApplyResult(st, r, h) ==
    [messages |-> (IF h.applied THEN Append(st.messages, SystemMsg(h.message))
                   ELSE st.messages) \o <<ToolMsg(r.tc, h.result)>>,
     pending_writes |-> (IF h.applied THEN Append(st.pending_writes, SystemMsg(h.result))
                         ELSE st.pending_writes) \o <<ToolMsg(r.tc, h.result)>>,
     active_agent |-> IF h.applied THEN h.to_agent ELSE st.active_agent,
     handoffs |-> st.handoffs + (IF h.applied THEN 1 ELSE 0),
     failures |-> st.failures + (IF StartsWith(h.result, ErrorPrefix) THEN 1 ELSE 0),
     successes |-> st.successes + (IF StartsWith(h.result, ErrorPrefix) THEN 0 ELSE 1),
     exec_count |-> st.exec_count + 1]

RECURSIVE ApplyResults(_, _)
ApplyResults(rs, st) ==
    IF Len(rs) = 0 THEN st
    ELSE ApplyResults(Tail(rs),
            ApplyResult(st, Head(rs),
                        IF Head(rs).tc.name = "handoff_agent"
                        THEN _apply_handoff_result(st.active_agent, Head(rs).result)
                        ELSE NotApplied(Head(rs).result)))

NoRound == [calls |-> <<>>, arrival |-> <<>>, tool_messages |-> <<>>,
            tool_writes |-> <<>>, exec_count |-> 0, should_continue |-> FALSE,
            successes |-> 0, failures |-> 0, handoffs |-> 0, agent |-> "",
            added |-> <<>>]
NoTurn == [n |-> 0, requests |-> 0, sigs |-> <<>>, base |-> 0, saved_base |-> 0,
           plan_summary |-> <<>>, rejected |-> FALSE]
NoCompaction == [n |-> 0, before |-> 0, summarized |-> FALSE, outcome |-> "none",
                 summary |-> <<>>, after |-> <<>>]

Running == {i \in 1..Len(tasks) : tasks[i].state = "running"}

\* the finally block of get_response has not been entered
NoFinalizer == [state |-> "none", idx |-> 0, flushed |-> <<>>]
\* no stream is being consumed
NoStream == [open |-> FALSE, events |-> <<>>, pos |-> 0, reasoning |-> <<>>,
             content |-> <<>>, tool_calls |-> <<>>]

\* OpenDevApp.__init__: a fresh conversation; the rows of the store, if any,
\* belong to an earlier conversation
RunIdle ==
    /\ conversation_id = 1
    /\ is_shutting_down = FALSE
    /\ write_ids = <<>>
    /\ row_convs = [i \in 1..Len(storage) |-> [conv |-> 0, seq |-> i]]
    /\ appended = <<>>
    /\ finalizer = NoFinalizer
    /\ stream_in = NoStream
    /\ commands = 0

NoRead == [op |-> "none", conv |-> 0, result |-> <<>>, uncached |-> <<>>,
           cached |-> FALSE]

\* Storage.__init__: empty caches, no call in progress
StoreIdle ==
    /\ tables = [conversations |-> <<>>, messages |-> <<>>]
    /\ _conversations_cache = [valid |-> FALSE, rows |-> <<>>]
    /\ _messages_cache = <<>>
    /\ store_calls = <<>>
    /\ store_read = NoRead
    /\ store_clock = 0

\* DatabaseManager.__init__: self._db = None
DbIdle ==
    /\ _db = 0
    /\ connections = <<>>
    /\ db_calls = <<>>

NoQuery == [op |-> "none", pc |-> "idle", attempt |-> 0, tries |-> 0, sleeps |-> 0,
            last |-> "none", committed |-> FALSE, result |-> "none"]

\* no statement is being run, nothing was read
NoHistoryRead == [limit |-> 0, result |-> <<>>, uncached |-> <<>>, cached |-> FALSE]

\* Storage.__init__: self._recent_user_history_cache = None
NoHistoryCache == [valid |-> FALSE, rows |-> <<>>]

PersistIdle ==
    /\ db_query = NoQuery
    /\ read_log = <<>>
    /\ history = <<>>
    /\ _recent_user_history_cache = NoHistoryCache
    /\ history_calls = <<>>
    /\ history_read = NoHistoryRead

\* OpenDevApp.__init__: no worker, self.pending_user_queue = []
WorkersIdle ==
    /\ workers = <<>>
    /\ pending_user_queue = <<>>

\* nothing of the app has happened yet, and it has a chat client
AppIdle ==
    /\ http_service = TRUE
    /\ mode = BUILD_MODE
    /\ messages = <<>>
    /\ storage = <<>>
    /\ is_streaming = FALSE
    /\ plan_tracker = NoTracker
    /\ active_agent = DEFAULT_AGENT_NAME
    /\ notifications = {}
    /\ turn_pc = "idle"
    /\ loop_pc = "off"
    /\ pending_writes = <<>>
    /\ tool_calls = <<>>
    /\ tasks = <<>>
    /\ arrival = <<>>
    /\ compact_pc = "idle"
    /\ turn = NoTurn
    /\ round = NoRound
    /\ compaction = NoCompaction
    /\ RunIdle
    /\ StoreIdle
    /\ DbIdle
    /\ WorkersIdle
    /\ PersistIdle

\* ToolOrchestrator.__init__: max(1, int(max_parallel_tools))
max_parallel_tools == Max(1, TOOL_MAX_PARALLEL)

\* a slip: the gate admits one call more than the limit
AdmitsOneMore(running) == running <= max_parallel_tools

\* asyncio.Semaphore(self.max_parallel_tools): "async with semaphore" enters
\* while fewer than max_parallel_tools holders are inside
Admits(running) == running < max_parallel_tools

\* run_one(idx) is admitted by the semaphore: the tasks acquire it in the order
\* gather created them, TOOL_MAX_PARALLEL at a time
TaskStart(i) ==
    /\ loop_pc = "tools"
    /\ i \in 1..Len(tasks)
    /\ tasks[i].state = "waiting"
    /\ \A j \in 1..(i - 1) : tasks[j].state # "waiting"
    /\ Admits(Cardinality(Running))
    /\ tasks' = [tasks EXCEPT ![i].state = "running"]
    /\ UNCHANGED <<http_service, mode, messages, storage, is_streaming, plan_tracker,
                   active_agent, notifications, turn_pc, loop_pc, pending_writes,
                   tool_calls, arrival, compact_pc, turn, round, compaction,
                   session_tracker>>

\* run_one(idx) returns what tool_manager.execute returned
TaskComplete(i, outcome) ==
    /\ loop_pc = "tools"
    /\ i \in 1..Len(tasks)
    /\ tasks[i].state = "running"
    /\ LET e == Execute(tool_calls[i].name, tool_calls[i].arguments, outcome) IN
          /\ tasks' = [tasks EXCEPT ![i] = Task("done", e)]
          /\ session_tracker' = Record(session_tracker, e)
    /\ arrival' = Append(arrival, i)
    /\ UNCHANGED <<http_service, mode, messages, storage, is_streaming, plan_tracker,
                   active_agent, notifications, turn_pc, loop_pc, pending_writes,
                   tool_calls, compact_pc, turn, round, compaction>>

ToolMessages(ms, from) ==
    SelectSeq(SubSeq(ms, from + 1, Len(ms)), LAMBDA m : m.role = "tool")

\* a slip: a round with a failed call ends the loop
RoundEndsOnFailure(st, progress) ==
    /\ messages' = progress.messages
    /\ plan_tracker' = progress.tracker
    /\ pending_writes' = st.pending_writes
    /\ active_agent' = st.active_agent
    /\ loop_pc' = IF st.exec_count > 0 /\ st.failures = 0 THEN "chat" ELSE "finalize"
    /\ round' = [calls |-> tool_calls, arrival |-> arrival,
                 tool_messages |-> ToolMessages(st.messages, Len(messages)),
                 tool_writes |-> ToolMessages(st.pending_writes, Len(pending_writes)),
                 exec_count |-> st.exec_count,
                 should_continue |-> st.exec_count > 0 /\ st.failures = 0,
                 successes |-> st.successes, failures |-> st.failures,
                 handoffs |-> st.handoffs, agent |-> active_agent,
                 added |-> SubSeq(st.messages, Len(messages) + 1, Len(st.messages))]

\* the round in get_response once execute_tools has returned st:
\* advance_plan_progress after a success, and should_continue
RoundEnds(st, progress) ==
    /\ messages' = progress.messages
    /\ plan_tracker' = progress.tracker
    /\ pending_writes' = st.pending_writes
    /\ active_agent' = st.active_agent
    /\ loop_pc' = IF st.exec_count > 0 THEN "chat" ELSE "finalize"
    /\ round' = [calls |-> tool_calls, arrival |-> arrival,
                 tool_messages |-> ToolMessages(st.messages, Len(messages)),
                 tool_writes |-> ToolMessages(st.pending_writes, Len(pending_writes)),
                 exec_count |-> st.exec_count,
                 should_continue |-> st.exec_count > 0,
                 successes |-> st.successes, failures |-> st.failures,
                 handoffs |-> st.handoffs, agent |-> active_agent,
                 added |-> SubSeq(st.messages, Len(messages) + 1, Len(st.messages))]

ExecuteToolsReturns(st) ==
    RoundEnds(st, IF st.successes > 0
                  THEN advance_plan_progress(plan_tracker, st.messages, 1)
                  ELSE [tracker |-> plan_tracker, messages |-> st.messages])

\* gather has returned: the rest of execute_tools, and of the round
GatherResults ==
    /\ loop_pc = "tools"
    /\ \A i \in 1..Len(tasks) : tasks[i].state = "done"
    /\ ExecuteToolsReturns(
          ApplyResults(OrderedResults(tool_calls, tasks, arrival),
                       [messages |-> messages, pending_writes |-> pending_writes,
                        active_agent |-> active_agent, handoffs |-> 0, failures |-> 0,
                        successes |-> 0, exec_count |-> 0]))
    /\ UNCHANGED <<http_service, mode, storage, is_streaming, notifications, turn_pc,
                   tool_calls, tasks, arrival, compact_pc, turn, compaction,
                   session_tracker>>

----------------------------------------------------------------------------
(* AIHandler.get_response *)

Response(error, reasoning, content, tcs) ==
    [error |-> error, reasoning |-> reasoning, content |-> content, tool_calls |-> tcs]

ArgsOf(k, v) == JObj(<<[k |-> k, v |-> v]>>)
ReadFileCall == ToolCall("c1", "read_file", ArgsOf("filepath", JStr("a.py")))
ReadWebpageCall == ToolCall("c2", "read_webpage", ArgsOf("url", JStr("a.py")))
HandoffCall ==
    ToolCall("c1", "handoff_agent",
             JObj(<<[k |-> "to_agent", v |-> JStr("reviewer")],
                    [k |-> "task", v |-> JStr("fix the bug")]>>))

\* what the model may answer in a round: text, nothing, tool calls, or a failure
Responses ==
    {Response(FALSE, <<"hm">>, <<"done">>, <<>>),
     Response(FALSE, <<>>, <<>>, <<>>),
     Response(FALSE, <<>>, <<>>, <<ReadFileCall>>),
     Response(FALSE, <<>>, <<"ok">>, <<HandoffCall>>),
     Response(TRUE, <<>>, <<>>, <<>>)}

\* a model that asks for a tool call it has not asked for before, every round
FreshResponses ==
    {Response(FALSE, <<>>, <<>>,
              <<ToolCall("c1", "read_file",
                         JObj(<<[k |-> "filepath", v |-> JStr("a.py")],
                                [k |-> "start_line", v |-> JInt(turn.requests)]>>))>>)}

\* what "async for" has consumed when is_streaming went false at the k-th
\* tool_call event, or before the text when text is FALSE
Truncated(resp, text, k) ==
    Response(FALSE,
             IF text THEN resp.reasoning ELSE <<>>,
             IF text THEN resp.content ELSE <<>>,
             SubSeq(resp.tool_calls, 1, k))

\* the assistant message of a round
AssistantRound(resp) ==
    Msg("assistant", resp.content, resp.reasoning,
        [i \in 1..Len(resp.tool_calls) |->
            [id |-> resp.tool_calls[i].id, type |-> "function",
             name |-> resp.tool_calls[i].name,
             arguments |-> JsonDumps(resp.tool_calls[i].arguments, FALSE)]],
        "", "")
StripTokens(content) == SelectSeq(content, LAMBDA tk : Strip(tk) # "")
IsWorthKeeping(resp) ==
    StripTokens(resp.content) # <<>> \/ resp.reasoning # <<>> \/ resp.tool_calls # <<>>

\* app._start_ai_run(user_input) up to the first await of get_response
StartAiRun ==
    /\ is_streaming' = TRUE
    /\ loop_pc' = IF http_service THEN "chat" ELSE "off"
    /\ pending_writes' = <<>>
    /\ tool_calls' = <<>>
    /\ tasks' = <<>>
    /\ arrival' = <<>>

\* "while self.app.is_streaming": the next round's chat request, or the way out
LoopRequest(limit) ==
    /\ loop_pc = "chat"
    /\ IF is_streaming
       THEN /\ turn.requests < limit
            /\ turn' = [turn EXCEPT !.requests = @ + 1]
            /\ loop_pc' = "streaming"
       ELSE /\ loop_pc' = "finalize"
            /\ turn' = turn
    /\ UNCHANGED <<http_service, mode, messages, storage, is_streaming, plan_tracker,
                   active_agent, notifications, turn_pc, pending_writes, tool_calls,
                   tasks, arrival, compact_pc, round, compaction, session_tracker>>

\* "Message building and saving" for what was consumed of the response, then
\* "if not tool_calls: break" or the call of execute_tools
RoundBuilt(resp) ==
    /\ messages' = IF IsWorthKeeping(resp)
                   THEN Append(messages, AssistantRound(resp))
                   ELSE messages
    /\ pending_writes' = IF IsWorthKeeping(resp)
                         THEN Append(pending_writes, AssistantRound(resp))
                         ELSE pending_writes
    /\ tool_calls' = resp.tool_calls
    /\ tasks' = [i \in 1..Len(resp.tool_calls) |-> Task("waiting", NoExec)]
    /\ arrival' = <<>>
    /\ loop_pc' = IF resp.tool_calls = <<>> THEN "finalize" ELSE "tools"
    /\ turn' = IF resp.tool_calls = <<>> THEN turn
               ELSE [turn EXCEPT !.sigs = Append(@, _tool_signatures(resp.tool_calls))]
    /\ UNCHANGED notifications

\* the response is consumed, the assistant message built, and the round either
\* ends the loop or dispatches its tool calls
LoopStream(answer) ==
    /\ loop_pc = "streaming"
    /\ \E text \in BOOLEAN, k \in 0..Len(answer.tool_calls) :
          /\ is_streaming => text /\ k = Len(answer.tool_calls)
          /\ k > 0 => text
          /\ LET resp == Truncated(answer, text, k) IN
             IF answer.error
             THEN /\ notifications' = notifications \cup {"error"}
                  /\ loop_pc' = "finally"
                  /\ UNCHANGED <<messages, pending_writes, tool_calls, tasks, arrival,
                                 turn>>
             ELSE RoundBuilt(resp)
    /\ UNCHANGED <<http_service, mode, storage, is_streaming, plan_tracker,
                   active_agent, turn_pc, compact_pc, round, compaction,
                   session_tracker>>

\* the events chat yields for an answer: one per chunk of reasoning and of
\* content, then one per tool call
TextEvent(kind, tk) == [kind |-> kind, text |-> tk, call |-> ToolCall("", "", EmptyObj)]
StreamEvents(answer) ==
    [i \in 1..Len(answer.reasoning) |-> TextEvent("reasoning", answer.reasoning[i])]
    \o [i \in 1..Len(answer.content) |-> TextEvent("content", answer.content[i])]
    \o [i \in 1..Len(answer.tool_calls) |->
           [kind |-> "tool_call", text |-> "", call |-> answer.tool_calls[i]]]

\* what "async for" has accumulated: reasoning_text, response_text, tool_calls
Consumed == Response(FALSE, stream_in.reasoning, stream_in.content, stream_in.tool_calls)

\* a slip: the flag is not looked at
KeepsConsuming(streaming) == FALSE

\* "if not self.app.is_streaming: break", evaluated for every event received
StopsConsuming(streaming) == ~streaming

\* "async for ... in chat(...)" receives its first await
StreamOpen(answer) ==
    /\ loop_pc = "streaming"
    /\ ~stream_in.open
    /\ stream_in' = [open |-> TRUE, events |-> StreamEvents(answer), pos |-> 0,
                     reasoning |-> <<>>, content |-> <<>>, tool_calls |-> <<>>]
    /\ UNCHANGED <<http_service, mode, messages, storage, is_streaming, plan_tracker,
                   active_agent, notifications, turn_pc, loop_pc, pending_writes,
                   tool_calls, tasks, arrival, compact_pc, turn, round, compaction,
                   session_tracker>>

\* the next event arrives: the loop breaks if the flag is down, else the event
\* is added to what has been accumulated
StreamEvent ==
    /\ loop_pc = "streaming"
    /\ stream_in.open
    /\ stream_in.pos < Len(stream_in.events)
    /\ LET e == stream_in.events[stream_in.pos + 1] IN
       IF StopsConsuming(is_streaming)
       THEN /\ stream_in' = [stream_in EXCEPT !.open = FALSE]
            /\ RoundBuilt(Consumed)
       ELSE /\ stream_in' =
                  [stream_in EXCEPT
                      !.pos = @ + 1,
                      !.reasoning = IF e.kind = "reasoning" THEN Append(@, e.text) ELSE @,
                      !.content = IF e.kind = "content" THEN Append(@, e.text) ELSE @,
                      !.tool_calls = IF e.kind = "tool_call" THEN Append(@, e.call) ELSE @]
            /\ UNCHANGED <<messages, pending_writes, tool_calls, tasks, arrival, loop_pc,
                           turn, notifications>>
    /\ UNCHANGED <<http_service, mode, storage, is_streaming, plan_tracker,
                   active_agent, turn_pc, compact_pc, round, compaction,
                   session_tracker>>

\* the stream is exhausted
StreamExhausted ==
    /\ loop_pc = "streaming"
    /\ stream_in.open
    /\ stream_in.pos = Len(stream_in.events)
    /\ stream_in' = [stream_in EXCEPT !.open = FALSE]
    /\ RoundBuilt(Consumed)
    /\ UNCHANGED <<http_service, mode, storage, is_streaming, plan_tracker,
                   active_agent, turn_pc, compact_pc, round, compaction,
                   session_tracker>>

\* compact_conversation up to its await: it returns at once without a chat
\* client or on an empty transcript, else summarize_conversation is called
StartCompaction ==
    IF ~http_service \/ messages = <<>>
    THEN /\ compact_pc' = "idle"
         /\ compaction' = [n |-> compaction.n + 1, before |-> Len(messages),
                           summarized |-> FALSE, outcome |-> "returned",
                           summary |-> <<>>, after |-> messages]
    ELSE /\ compact_pc' = "summarizing"
         /\ compaction' = [n |-> compaction.n + 1, before |-> Len(messages),
                           summarized |-> TRUE, outcome |-> "summarizing",
                           summary |-> <<>>, after |-> messages]

\* context_remaining < 20 and len(self.app.messages) > 10
AutoCompactLength == 10
NeedsCompaction(context_remaining) ==
    context_remaining < 20 /\ Len(messages) > AutoCompactLength

\* a slip: the finally block leaves is_streaming as it finds it
LoopLeavesStreaming ==
    /\ loop_pc \in {"finalize", "finally"}
    /\ LET final == IF loop_pc = "finalize" /\ is_streaming
                    THEN finalize_plan_progress(plan_tracker, messages)
                    ELSE [tracker |-> plan_tracker, messages |-> messages]
       IN /\ messages' = final.messages
          /\ plan_tracker' = final.tracker
    /\ \E context_remaining \in {10, 100} :
          IF loop_pc = "finalize" /\ NeedsCompaction(context_remaining)
          THEN StartCompaction
          ELSE UNCHANGED <<compact_pc, compaction>>
    /\ is_streaming' = is_streaming

\* after the loop: _finalize_stats and finalize_plan_progress on the normal
\* way out, then the finally block is entered: self.app.is_streaming = False
LoopLeaves ==
    /\ loop_pc \in {"finalize", "finally"}
    /\ LET final == IF loop_pc = "finalize" /\ is_streaming
                    THEN finalize_plan_progress(plan_tracker, messages)
                    ELSE [tracker |-> plan_tracker, messages |-> messages]
       IN /\ messages' = final.messages
          /\ plan_tracker' = final.tracker
    /\ \E context_remaining \in {10, 100} :
          IF loop_pc = "finalize" /\ NeedsCompaction(context_remaining)
          THEN StartCompaction
          ELSE UNCHANGED <<compact_pc, compaction>>
    /\ is_streaming' = FALSE

\* the way out of get_response while the app is not shutting down and every
\* save succeeds
LoopEnd ==
    /\ LoopLeaves
    /\ storage' = storage \o [i \in 1..Len(pending_writes) |-> RowOf(pending_writes[i])]
    /\ loop_pc' = "off"
    /\ UNCHANGED <<http_service, mode, active_agent, notifications, turn_pc,
                   pending_writes, tool_calls, tasks, arrival, turn, round,
                   session_tracker>>

\* app.action_cancel_request while a request is running
CancelRequest ==
    /\ is_streaming
    /\ is_streaming' = FALSE
    /\ notifications' = notifications \cup {"Request cancelled"}
    /\ UNCHANGED <<http_service, mode, messages, storage, plan_tracker, active_agent,
                   turn_pc, loop_pc, pending_writes, tool_calls, tasks, arrival,
                   compact_pc, turn, round, compaction, session_tracker>>

----------------------------------------------------------------------------
(* OpenDevApp and TurnOrchestrator: the user turn *)

AppFree == turn_pc = "idle" /\ loop_pc = "off" /\ compact_pc = "idle"

\* handle_input -> _submit_user_message -> handle_user_turn, up to its first
\* await: in Build mode the run starts, in Plan mode the plan is asked for
SubmitUserMessage(user_input, limit) ==
    /\ AppFree
    /\ http_service
    /\ ~is_streaming
    /\ turn.n < limit
    /\ messages' = Append(messages, UserMsg(user_input))
    /\ storage' = save_message(storage, "user", user_input)
    /\ turn' = [n |-> turn.n + 1, requests |-> 0, sigs |-> <<>>,
                base |-> Len(messages'), saved_base |-> Len(storage'),
                plan_summary |-> <<>>, rejected |-> FALSE]
    /\ IF mode = PLAN_MODE
       THEN /\ turn_pc' = "planning"
            /\ UNCHANGED <<is_streaming, loop_pc, pending_writes, tool_calls, tasks,
                           arrival>>
       ELSE /\ turn_pc' = "idle"
            /\ StartAiRun
    /\ UNCHANGED <<http_service, mode, plan_tracker, active_agent, notifications,
                   compact_pc, round, compaction, session_tracker>>

\* app.action_cycle_mode
CycleMode ==
    /\ AppFree
    /\ mode' = IF mode = APP_MODES[1] THEN APP_MODES[2] ELSE APP_MODES[1]
    /\ UNCHANGED <<http_service, messages, storage, is_streaming, plan_tracker,
                   active_agent, notifications, turn_pc, loop_pc, pending_writes,
                   tool_calls, tasks, arrival, compact_pc, turn, round, compaction,
                   session_tracker>>

\* _run_plan_turn from the return of generate_plan to the confirmation modal.
\* plan_summary is NoPlan when generate_plan failed or the model said nothing.
PlanGenerated(plan_summary) ==
    /\ turn_pc = "planning"
    /\ IF plan_summary = NoPlan \/ PlanText(plan_summary) = PLAN_SKIP_TOKEN
       THEN /\ turn_pc' = "idle"
            /\ StartAiRun
            /\ UNCHANGED <<messages, storage, plan_tracker, turn>>
       ELSE LET plan_items == _extract_plan_items(plan_summary)
                plan_msg == PLAN_MESSAGE_PREFIX \o _format_plan_items(plan_items, 0)
            IN /\ messages' = Append(messages, AssistantMsg(plan_msg))
               /\ storage' = save_message(storage, "assistant", plan_msg)
               /\ plan_tracker' = [active |-> FALSE, items |-> plan_items,
                                   completed |-> 0, message_index |-> Len(messages') - 1]
               /\ turn' = [turn EXCEPT !.plan_summary = plan_summary]
               /\ turn_pc' = "confirming"
               /\ UNCHANGED <<is_streaming, loop_pc, pending_writes, tool_calls, tasks,
                              arrival>>
    /\ UNCHANGED <<http_service, mode, active_agent, notifications, compact_pc, round,
                   compaction, session_tracker>>

ApprovedSystemMsg(plan_summary) ==
    <<"Execution plan approved by user. Execute the approved plan now. ",
      "Approved plan:", "\n">> \o PlanText(plan_summary)
ApprovedSystemRow(plan_summary) ==
    <<"Execution plan approved by user.", "\n\n", "Approved plan:", "\n">>
    \o PlanText(plan_summary)

\* a slip: the approval messages are appended whatever the decision
DecisionMessagesAlways(approved, plan_summary) ==
    << SystemMsg(ApprovedSystemMsg(plan_summary)),
       AssistantMsg(<<"Plan approved. Executing...">>) >>

\* the messages _run_plan_turn appends once the decision is known
DecisionMessages(approved, plan_summary) ==
    IF ~approved THEN <<>>
    ELSE << SystemMsg(ApprovedSystemMsg(plan_summary)),
            AssistantMsg(<<"Plan approved. Executing...">>) >>

\* _run_plan_turn from the decision of the modal to its return
ConfirmPlan(approved) ==
    /\ turn_pc = "confirming"
    /\ messages' = messages \o DecisionMessages(approved, turn.plan_summary)
    /\ IF ~approved
       THEN /\ notifications' = notifications \cup {"Plan execution cancelled."}
            /\ turn_pc' = "idle"
            /\ turn' = [turn EXCEPT !.rejected = TRUE]
            /\ UNCHANGED <<storage, plan_tracker>>
       ELSE /\ storage' = save_message(
                              save_message(storage, "system",
                                           ApprovedSystemRow(turn.plan_summary)),
                              "assistant", <<"Plan approved. Executing...">>)
            /\ plan_tracker' = [plan_tracker EXCEPT !.active = TRUE]
            /\ turn_pc' = "scheduled"
            /\ UNCHANGED <<notifications, turn>>
    /\ UNCHANGED <<http_service, mode, is_streaming, active_agent, loop_pc,
                   pending_writes, tool_calls, tasks, arrival, compact_pc, round,
                   compaction, session_tracker>>

\* call_after_refresh(lambda: self.app._start_ai_run(user_input))
StartScheduledRun ==
    /\ turn_pc = "scheduled"
    /\ turn_pc' = "idle"
    /\ StartAiRun
    /\ UNCHANGED <<http_service, mode, messages, storage, plan_tracker, active_agent,
                   notifications, compact_pc, turn, round, compaction, session_tracker>>

----------------------------------------------------------------------------
(* /compact and the stored conversations *)

COMPACTED == <<"[COMPACTED]", "\n">>

\* what summarize_conversation returns: the summary, the stand-in for an empty
\* one, or the text of the error
Summaries ==
    {<<"summary text">>, <<"Conversation summary not available.">>,
     <<"Error generating summary: ", "connection reset">>}

\* a slip: the old transcript is kept and the summary appended
CompactedAppended(msgs, summary) == Append(msgs, AssistantMsg(COMPACTED \o summary))

\* self.messages = []; self.messages.append(context_msg)
Compacted(msgs, summary) == <<AssistantMsg(COMPACTED \o summary)>>

\* CommandHandler.handle("/compact"): compact_conversation is started on a
\* non-empty transcript only
CompactCommand ==
    /\ AppFree
    /\ compaction.n < MaxCompactions
    /\ IF messages = <<>>
       THEN /\ notifications' = notifications \cup {"Nothing to compact."}
            /\ compact_pc' = "idle"
            /\ compaction' = [n |-> compaction.n + 1, before |-> 0,
                              summarized |-> FALSE, outcome |-> "nothing",
                              summary |-> <<>>, after |-> messages]
       ELSE /\ StartCompaction
            /\ notifications' = IF compact_pc' = "summarizing"
                                THEN notifications \cup {"Compacting context..."}
                                ELSE notifications
    /\ UNCHANGED <<http_service, mode, messages, storage, is_streaming, plan_tracker,
                   active_agent, turn_pc, loop_pc, pending_writes, tool_calls, tasks,
                   arrival, turn, round, session_tracker>>

\* compact_conversation from the return of summarize_conversation to its end;
\* saved is FALSE when save_message raises
CompactSummarized(summary, saved) ==
    /\ compact_pc = "summarizing"
    /\ turn_pc = "idle"
    /\ loop_pc = "off"
    /\ messages' = Compacted(messages, summary)
    /\ IF saved
       THEN /\ storage' = save_message(storage, "assistant", COMPACTED \o summary)
            /\ UNCHANGED notifications
       ELSE /\ notifications' = notifications \cup {"Compaction failed"}
            /\ UNCHANGED storage
    /\ compact_pc' = "idle"
    /\ compaction' = [compaction EXCEPT !.before = Len(messages),
                                        !.outcome = "replaced", !.summary = summary,
                                        !.after = messages']
    /\ turn' = [turn EXCEPT !.rejected = FALSE]
    /\ UNCHANGED <<http_service, mode, is_streaming, plan_tracker, active_agent,
                   turn_pc, loop_pc, pending_writes, tool_calls, tasks, arrival, round,
                   session_tracker>>

\* app.load_conversation(conversation_id) of the stored conversation
LoadConversation ==
    /\ AppFree
    /\ storage # <<>>
    /\ messages # [i \in 1..Len(storage) |-> MsgOf(storage[i])]
    /\ messages' = [i \in 1..Len(storage) |-> MsgOf(storage[i])]
    /\ plan_tracker' = NoTracker
    /\ turn' = [turn EXCEPT !.rejected = FALSE]
    /\ UNCHANGED <<http_service, mode, storage, is_streaming, active_agent,
                   notifications, turn_pc, loop_pc, pending_writes, tool_calls, tasks,
                   arrival, compact_pc, round, compaction, session_tracker>>

SigInit ==
    /\ \E name \in SigNames, a \in Obj2 : \E b \in Reorderings(a) :
          sig_tool_calls = << [name |-> name, arguments |-> a],
                              [name |-> name, arguments |-> b] >>
    /\ sig_result = <<>>
    /\ sig_pc = "ready"
    /\ TmInit
    /\ ChatIdle
    /\ AppIdle

ComputeSignatures ==
    /\ sig_pc = "ready"
    /\ sig_result' = _tool_signatures(sig_tool_calls)
    /\ sig_pc' = "done"
    /\ UNCHANGED <<sig_tool_calls, tmVars, session_tracker, chatVars, appVars, runVars,
                   storeVars, dbVars, workerVars, persistVars>>

SigNext == ComputeSignatures

SpecSig == SigInit /\ [][SigNext]_vars

\* C10: structurally equal argument objects that differ only in key insertion
\* order (at any nesting depth) get the same signature under the same tool name.
SignatureStability ==
    sig_pc = "done" =>
        (/\ sig_tool_calls[1].name = sig_tool_calls[2].name
         /\ StructEq(sig_tool_calls[1].arguments, sig_tool_calls[2].arguments)
         => sig_result[1] = sig_result[2])

\* two calls whose nested argument objects were inserted in different orders
\* have been given their signatures
SignatureStabilityWitness ==
    /\ sig_pc = "done"
    /\ sig_tool_calls[1].arguments # sig_tool_calls[2].arguments
    /\ StructEq(sig_tool_calls[1].arguments, sig_tool_calls[2].arguments)
    /\ \E i \in 1..Len(sig_tool_calls[1].arguments.v) :
          /\ sig_tool_calls[1].arguments.v[i].v.t = "obj"
          /\ \A j \in 1..Len(sig_tool_calls[2].arguments.v) :
                sig_tool_calls[1].arguments.v[i].v # sig_tool_calls[2].arguments.v[j].v
    /\ Len(sig_result) = 2

----------------------------------------------------------------------------
(* ToolManager.execute on its own *)

SigIdle ==
    /\ sig_tool_calls = <<>>
    /\ sig_result = <<>>
    /\ sig_pc = "idle"

ToolInit == TmInit /\ SigIdle /\ ChatIdle /\ AppIdle
ToolNext == ToolExecuteAny
SpecTool == ToolInit /\ [][ToolNext]_vars

Called == tm_call # NoCall

\* C4: execute never raises; an unknown tool, a validation failure, a handler
\* that raises and a handler that returns an error all give a string beginning
\* with "Error:", and every other outcome gives a string that does not.
ExecuteNormalisesErrors ==
    Called =>
        /\ ~tm_exec.raised
        /\ tm_exec.failed => StartsWith(tm_exec.result, ErrorPrefix)
        /\ ~tm_exec.failed => ~StartsWith(tm_exec.result, ErrorPrefix)

\* the part of C4 that the code keeps: execute never raises, and the failures
\* it detects itself give an "Error:" string
ExecuteNeverRaises ==
    Called =>
        /\ ~tm_exec.raised
        /\ tm_exec.path \in {"unknown_tool", "validation_error", "type_error",
                             "handler_exception"}
              => StartsWith(tm_exec.result, ErrorPrefix)

\* C5: for a tool whose schema requires a key, arguments that miss a required
\* key or carry a key outside the declared properties give an "Error:" string
\* and the handler is never called.
IsObject(x) == x.t = "obj"
RequiresKey(name) == name \in RegisteredTools /\ Len(Schema(name).required) > 0
MissesRequired(name, arguments) ==
    \E i \in 1..Len(Schema(name).required) :
        Schema(name).required[i] \notin DictKeys(arguments.v)
HasUndeclaredKey(name, arguments) ==
    \E k \in DictKeys(arguments.v) : k \notin DOMAIN Schema(name).properties
ValidationCompleteness ==
    (/\ Called
     /\ RequiresKey(tm_call.name)
     /\ IsObject(tm_call.arguments)
     /\ \/ MissesRequired(tm_call.name, tm_call.arguments)
        \/ HasUndeclaredKey(tm_call.name, tm_call.arguments))
    => /\ ~tm_exec.raised
       /\ StartsWith(tm_exec.result, ErrorPrefix)
       /\ ~tm_exec.called

\* read_webpage was called with its required url and one undeclared key
ValidationCompletenessWitness ==
    /\ Called
    /\ tm_call.name = "read_webpage"
    /\ IsObject(tm_call.arguments)
    /\ DictKeys(tm_call.arguments.v) = {"url", "extra"}
    /\ DictGet(tm_call.arguments.v, "url") = JStr("a.py")
    /\ StartsWith(tm_exec.result, ErrorPrefix)
    /\ session_tracker.tool_calls_failure = 1

----------------------------------------------------------------------------
(* One streamed chat with a provider that accepts every request *)

Quiet == UNCHANGED <<sigVars, tmVars, appVars, runVars, storeVars, dbVars, workerVars, persistVars>>

StreamInit == TmInit /\ SigIdle /\ ChatIdle /\ AppIdle

StreamBegin == (\E tools \in BOOLEAN : ChatBegin(TRUE, tools, 1)) /\ Quiet
StreamFirstAnswer == ChatFirstAnswer /\ Quiet
StreamConsume == (\E chunk \in RichChunks : ChatConsumeChunk(chunk)) /\ Quiet
StreamEnd == ChatStreamEnd /\ Quiet
StreamYieldToolCall == ChatYieldToolCall /\ Quiet
StreamFinish == ChatFinish /\ Quiet
StreamClose == ChatClose /\ Quiet

StreamNext ==
    \/ StreamBegin
    \/ StreamFirstAnswer
    \/ StreamConsume
    \/ StreamEnd
    \/ StreamYieldToolCall
    \/ StreamFinish
    \/ StreamClose

SpecStream == StreamInit /\ [][StreamNext]_vars

\* the deltas the stream carried, read off the frames
DeltaFrames == SelectSeq(chat_frames, LAMBDA f : f.choices)
RECURSIVE ConcatContent(_)
ConcatContent(frames) ==
    IF Len(frames) = 0 THEN "" ELSE Head(frames).content \o ConcatContent(Tail(frames))
RECURSIVE ConcatData(_)
ConcatData(events) ==
    IF Len(events) = 0 THEN "" ELSE Head(events).data \o ConcatData(Tail(events))
RECURSIVE FlattenDeltas(_)
FlattenDeltas(frames) ==
    IF Len(frames) = 0 THEN <<>>
    ELSE Head(frames).tool_calls \o FlattenDeltas(Tail(frames))
SentDeltas == FlattenDeltas(DeltaFrames)
SentIndexes == {SentDeltas[i].index : i \in 1..Len(SentDeltas)}
FragmentsOf(index) == SelectSeq(SentDeltas, LAMBDA d : d.index = index)
RECURSIVE ConcatNames(_)
ConcatNames(ds) == IF Len(ds) = 0 THEN "" ELSE Head(ds).name \o ConcatNames(Tail(ds))
RECURSIVE ConcatArguments(_)
ConcatArguments(ds) ==
    IF Len(ds) = 0 THEN <<>> ELSE Head(ds).arguments \o ConcatArguments(Tail(ds))
EventsOfKind(kind) == SelectSeq(chat_events, LAMBDA e : e.kind = kind)

\* the indexes of the deltas, each once, in the order they first occurred
RECURSIVE FirstSeen(_, _)
FirstSeen(ds, seen) ==
    IF Len(ds) = 0 THEN <<>>
    ELSE IF Head(ds).index \in seen THEN FirstSeen(Tail(ds), seen)
    ELSE <<Head(ds).index>> \o FirstSeen(Tail(ds), seen \cup {Head(ds).index})

\* C6: when a stream has completed, the content events concatenate to the
\* concatenation of the content deltas, and there is exactly one tool_call
\* event per index that occurred in a tool-call delta: its name is the
\* concatenation of that index's name fragments and its arguments are the JSON
\* parse of that index's concatenated argument fragments.
StreamingAccumulation ==
    chat_pc = "done" /\ chat_args.stream =>
        LET order == FirstSeen(SentDeltas, {})
            calls == EventsOfKind("tool_call")
        IN /\ ConcatData(EventsOfKind("content")) = ConcatContent(DeltaFrames)
           /\ Len(calls) = Len(order)
           /\ \A i \in 1..Len(order) :
                 LET text == ConcatArguments(FragmentsOf(order[i])) IN
                 /\ calls[i].data.name = ConcatNames(FragmentsOf(order[i]))
                 /\ JsonLoads(text).ok => calls[i].data.arguments = JsonLoads(text).value

\* a content delta, then one tool call split across two frames, all yielded
StreamingAccumulationWitness ==
    /\ chat_pc = "done"
    /\ Len(chat_frames) = 3
    /\ chat_frames[1].content = "Hel"
    /\ Len(FragmentsOf(0)) = 2
    /\ chat_events = << Event("content", "Hel"),
                        Event("tool_call",
                              [id |-> "call_a", name |-> "read_file",
                               arguments |-> JObj(<<[k |-> "filepath",
                                                     v |-> JStr("a.py")]>>)]) >>

----------------------------------------------------------------------------
(* Several chats on one client, with a provider of any kind *)

Providers ==
    [rejects_stream_options : BOOLEAN, rejects_tools : BOOLEAN, flaky : BOOLEAN]

ChatInit ==
    /\ TmInit
    /\ SigIdle
    /\ AppIdle
    /\ provider \in Providers
    /\ api_key \in BOOLEAN
    /\ _tool_calling_disabled = FALSE
    /\ chat_pc = "idle"
    /\ chat_args = [stream |-> TRUE, tools |-> FALSE]
    /\ provider_calls = <<>>
    /\ chat_frames = <<>>
    /\ tool_calls_acc = <<>>
    /\ chat_usage = NoUsage
    /\ chat_events = <<>>
    /\ chat_emitted = 0
    /\ chat_error = {}
    /\ chat_log = <<>>

ChatBeginAny ==
    (\E stream \in BOOLEAN, tools \in BOOLEAN : ChatBegin(stream, tools, MaxChats))
    /\ Quiet
ChatFirstAnswerStep == ChatFirstAnswer /\ Quiet
ChatRetryAnswerStep == ChatRetryAnswer /\ Quiet
ChatConsumeAny == (\E chunk \in FewChunks : ChatConsumeChunk(chunk)) /\ Quiet
ChatStreamErrorStep == ChatStreamError /\ Quiet
ChatStreamEndStep == ChatStreamEnd /\ Quiet
ChatYieldToolCallStep == ChatYieldToolCall /\ Quiet
ChatFinishStep == ChatFinish /\ Quiet
ChatCloseStep == ChatClose /\ Quiet
ChatRespondAny == (\E msg \in Messages : ChatRespond(msg)) /\ Quiet

ChatNext ==
    \/ ChatBeginAny
    \/ ChatFirstAnswerStep
    \/ ChatRetryAnswerStep
    \/ ChatConsumeAny
    \/ ChatStreamErrorStep
    \/ ChatStreamEndStep
    \/ ChatYieldToolCallStep
    \/ ChatFinishStep
    \/ ChatCloseStep
    \/ ChatRespondAny

SpecChat == ChatInit /\ [][ChatNext]_vars

\* the provider of the claim, on a client with an API key: it rejects
\* stream_options and nothing else
RejectsOnlyStreamOptions ==
    /\ api_key
    /\ provider.rejects_stream_options
    /\ ~provider.rejects_tools
    /\ ~provider.flaky

\* the invocation completed after the stream_options fallback
FellBack(entry) ==
    /\ entry.outcome = "done"
    /\ Len(entry.calls) = 2
    /\ entry.calls[1].stream_options
    /\ ~entry.calls[2].stream_options

\* C7: with a provider that rejects stream_options and succeeds without it, a
\* streamed chat completes with exactly 2 provider calls, and every later chat
\* on the same client omits stream_options from its first attempt onward.
StreamOptionsFallbackRemembered ==
    RejectsOnlyStreamOptions =>
        \A i \in 1..Len(chat_log) :
            /\ chat_log[i].stream => Len(chat_log[i].calls) = 2
            /\ FellBack(chat_log[i]) =>
                  \A j \in (i + 1)..Len(chat_log) :
                      ~chat_log[j].calls[1].stream_options

\* C7 as the code has it: with such a provider every streamed chat, the first
\* and each later one, sends stream_options on its first attempt, is rejected,
\* retries once without it and does not fail: exactly 2 provider calls each.
StreamOptionsFallbackEachCall ==
    RejectsOnlyStreamOptions =>
        \A i \in 1..Len(chat_log) :
            chat_log[i].stream =>
                /\ chat_log[i].outcome # "failed"
                /\ Len(chat_log[i].calls) = 2
                /\ chat_log[i].calls[1].stream_options
                /\ ~chat_log[i].calls[2].stream_options

\* two streamed chats in a row, each of which fell back
StreamOptionsFallbackWitness ==
    /\ RejectsOnlyStreamOptions
    /\ Len(chat_log) = 2
    /\ FellBack(chat_log[1])
    /\ FellBack(chat_log[2])

\* the invocation sent tools, was told tool calling is unsupported and sent
\* the request again without them
ToolFallback(calls) ==
    /\ Len(calls) = 2
    /\ calls[1].tools
    /\ ~calls[2].tools
    /\ calls[2].stream_options = calls[1].stream_options

NoToolsAtFirst(calls) == Len(calls) > 0 => ~calls[1].tools

\* C16: once a chat with tools has failed with a tool-calling-unsupported error
\* and been retried without tools, _tool_calling_disabled is true and stays
\* true, and every later chat on the client sends no tools on its first attempt.
ToolCallingLatch ==
    /\ [][_tool_calling_disabled => _tool_calling_disabled']_vars
    /\ [](/\ ToolFallback(provider_calls) => _tool_calling_disabled
          /\ \A i \in 1..Len(chat_log) :
                ToolFallback(chat_log[i].calls) =>
                    /\ _tool_calling_disabled
                    /\ \A j \in (i + 1)..Len(chat_log) :
                          NoToolsAtFirst(chat_log[j].calls)
                    /\ ~ChatOver => NoToolsAtFirst(provider_calls))

\* a chat fell back, and the next chat, although given tools, sent none
ToolCallingLatchWitness ==
    /\ Len(chat_log) = 1
    /\ ToolFallback(chat_log[1].calls)
    /\ chat_log[1].outcome = "done"
    /\ chat_pc = "first_request"
    /\ chat_args.tools
    /\ ~provider_calls[1].tools

\* C17: every failure that leaves chat, from the first request, from a retry
\* or while the response is consumed, is raised as RateLimitError when its
\* message contains "429" and is re-raised unchanged when it does not.
RateLimitClassification ==
    \A i \in 1..Len(chat_log) :
        chat_log[i].outcome = "failed" =>
            /\ "429" \in chat_log[i].error => chat_log[i].raised = RateLimitError
            /\ "429" \notin chat_log[i].error => chat_log[i].raised = chat_log[i].error

\* a retry that failed with a 429, and a stream that broke otherwise
RateLimitClassificationWitness ==
    /\ Len(chat_log) = 2
    /\ Len(chat_log[1].calls) = 2
    /\ chat_log[1].error = ErrRateLimit
    /\ chat_log[1].raised = RateLimitError
    /\ chat_log[2].outcome = "failed"
    /\ Len(chat_log[2].calls) = 1
    /\ chat_log[2].stream
    /\ Len(chat_frames) > 0
    /\ chat_log[2].raised = ErrOther

\* the invocations that are over, and those of them that got past the check
\* of the API key
Invocations == Len(chat_log)
KeyedInvocations ==
    Cardinality({i \in 1..Len(chat_log) : chat_log[i].outcome # "raised"})

\* C18: every invocation of chat, whichever branch it takes and however it
\* ends, records exactly one usage observation: the tracker's request counter
\* grows by exactly 1 per invocation.
UsageAccounting == ChatOver => session_tracker.requests = Invocations

\* C18 as the code has it: the invocations of a client with an API key record
\* exactly one usage observation each, however they end; an invocation without
\* an API key raises before the request and records none.
UsageAccountingWithKey ==
    /\ ChatOver => session_tracker.requests = KeyedInvocations
    /\ ~ChatOver => session_tracker.requests = KeyedInvocations
    /\ ~api_key => session_tracker.requests = 0

\* a chat that failed after its fallback, and a stream its consumer abandoned
UsageAccountingWitness ==
    /\ ChatOver
    /\ Len(chat_log) = 2
    /\ chat_log[1].outcome = "failed"
    /\ Len(chat_log[1].calls) = 2
    /\ chat_log[2].outcome = "closed"
    /\ session_tracker.requests = 2

----------------------------------------------------------------------------
(* The app: user turns in both modes, the agent loop, /compact *)

Elsewhere == UNCHANGED <<sigVars, tmVars, chatVars, storeVars, dbVars, workerVars, persistVars>>
Still == Elsewhere /\ UNCHANGED runVars

AppInit ==
    /\ TmInit
    /\ SigIdle
    /\ ChatIdle
    /\ http_service \in BOOLEAN
    /\ mode \in {BUILD_MODE, PLAN_MODE}
    /\ messages = <<>>
    /\ storage \in {<<>>, OldConversation}
    /\ is_streaming = FALSE
    /\ plan_tracker = NoTracker
    /\ active_agent = DEFAULT_AGENT_NAME
    /\ notifications = {}
    /\ turn_pc = "idle"
    /\ loop_pc = "off"
    /\ pending_writes = <<>>
    /\ tool_calls = <<>>
    /\ tasks = <<>>
    /\ arrival = <<>>
    /\ compact_pc = "idle"
    /\ turn = NoTurn
    /\ round = NoRound
    /\ compaction = NoCompaction
    /\ RunIdle
    /\ StoreIdle
    /\ DbIdle
    /\ WorkersIdle
    /\ PersistIdle

Submit == SubmitUserMessage(<<"hi">>, MaxTurns) /\ Still
Cycle == CycleMode /\ Still
Plan == (\E plan_summary \in Plans \cup {NoPlan, SkipPlan} : PlanGenerated(plan_summary))
        /\ Still
Confirm == (\E approved \in BOOLEAN : ConfirmPlan(approved)) /\ Still
ScheduledRun == StartScheduledRun /\ Still
ChatRequest == LoopRequest(MaxTurnRequests) /\ Still
ChatStream == (\E answer \in Responses : LoopStream(answer)) /\ Still
ToolStart == (\E i \in 1..MaxBatch : TaskStart(i)) /\ Still
ToolDone == (\E i \in 1..MaxBatch, outcome \in HandlerOutcomes : TaskComplete(i, outcome))
            /\ Still
Gather == GatherResults /\ Still
RunEnd == LoopEnd /\ Still
Cancel == CancelRequest /\ Still
Compact == CompactCommand /\ Still
Summarized == (\E summary \in Summaries, saved \in BOOLEAN :
                  CompactSummarized(summary, saved)) /\ Still
Load == LoadConversation /\ Still

Next ==
    \/ Submit
    \/ Cycle
    \/ Plan
    \/ Confirm
    \/ ScheduledRun
    \/ ChatRequest
    \/ ChatStream
    \/ ToolStart
    \/ ToolDone
    \/ Gather
    \/ RunEnd
    \/ Cancel
    \/ Compact
    \/ Summarized
    \/ Load

Spec == AppInit /\ [][Next]_vars

\* C1: if the same single tool call (the same signature) is emitted in two
\* consecutive rounds of a turn, the loop halts after the second of them (with
\* a warning): no third chat request is issued.
RepeatLoopTermination ==
    \A r \in 2..Len(turn.sigs) :
        Len(turn.sigs[r]) = 1 /\ turn.sigs[r] = turn.sigs[r - 1] => turn.requests <= r

\* the messages and the rows of the turn after the user message
TurnMessages == SubSeq(messages, turn.base + 1, Len(messages))
TurnRows == SubSeq(storage, turn.saved_base + 1, Len(storage))
PlanMsg == PLAN_MESSAGE_PREFIX \o _format_plan_items(plan_tracker.items, 0)

\* C9: once the confirmation of a produced plan has returned false, no agent
\* loop round is started for the turn (no streamed chat request, is_streaming
\* false) and the rendered plan message is the only message appended and the
\* only row persisted after the user message.
PlanRejection ==
    turn.rejected =>
        /\ ~is_streaming
        /\ loop_pc = "off"
        /\ turn_pc = "idle"
        /\ turn.requests = 0
        /\ TurnMessages = <<AssistantMsg(PlanMsg)>>
        /\ TurnRows = <<Row("assistant", PlanMsg, <<>>, <<>>)>>

\* a two-step plan was shown and turned down
PlanRejectionWitness ==
    /\ turn.rejected
    /\ mode = PLAN_MODE
    /\ Len(plan_tracker.items) = 2
    /\ "Plan execution cancelled." \in notifications
    /\ Len(messages) = 2

IsCompacted(msgs) ==
    /\ Len(msgs) = 1
    /\ msgs[1].role = "assistant"
    /\ StartsWith(msgs[1].content, <<"[COMPACTED]">>)

CompactionOver == compaction.outcome \in {"nothing", "returned", "replaced"}

----------------------------------------------------------------------------
(* A long turn: the model asks for a fresh tool call in every round *)

LongSubmit == SubmitUserMessage(<<"hi">>, 1) /\ Still
LongChatRequest == LoopRequest(MaxLongTurnRequests) /\ Still
LongChatStream == (\E answer \in FreshResponses : LoopStream(answer)) /\ Still
LongToolStart == TaskStart(1) /\ Still
LongToolDone == TaskComplete(1, "ok") /\ Still
LongSummarized == CompactSummarized(<<"summary text">>, TRUE) /\ Still

RoundsInit == TmInit /\ SigIdle /\ ChatIdle /\ AppIdle

RoundsNext ==
    \/ LongSubmit
    \/ LongChatRequest
    \/ LongChatStream
    \/ LongToolStart
    \/ LongToolDone
    \/ Gather
    \/ RunEnd
    \/ Cancel
    \/ LongSummarized

SpecRounds == RoundsInit /\ [][RoundsNext]_vars

\* C2: whatever the model does, one turn issues at most TOOL_MAX_ROUNDS chat
\* requests.
RoundCap == turn.requests <= TOOL_MAX_ROUNDS

----------------------------------------------------------------------------
(* One round of tool calls, completing in any order *)

CallIds == [i \in 1..(MaxBatch + 1) |-> "c" \o ToString(i)]
CallPool ==
    {[name |-> "read_file", arguments |-> ArgsOf("filepath", JStr("a.py"))],
     [name |-> "handoff_agent", arguments |-> HandoffCall.arguments],
     [name |-> "no_such_tool", arguments |-> EmptyObj]}
Batches ==
    UNION {{[i \in 1..n |-> ToolCall(CallIds[i], b[i].name, b[i].arguments)] :
               b \in [1..n -> CallPool]} : n \in 1..MaxBatch}
BatchResponses == {Response(FALSE, <<>>, <<>>, batch) : batch \in Batches}

BatchSubmit == SubmitUserMessage(<<"hi">>, 1) /\ Still
BatchChatRequest == LoopRequest(1) /\ Still
BatchChatStream == (\E answer \in BatchResponses : LoopStream(answer)) /\ Still

RoundInit == TmInit /\ SigIdle /\ ChatIdle /\ AppIdle

RoundNext ==
    \/ BatchSubmit
    \/ BatchChatRequest
    \/ BatchChatStream
    \/ ToolStart
    \/ ToolDone
    \/ Gather

SpecRound == RoundInit /\ [][RoundNext]_vars

Ids(ms) == [i \in 1..Len(ms) |-> ms[i].tool_call_id]
CallOrder(tcs) == [i \in 1..Len(tcs) |-> tcs[i].id]

\* C3: for every batch of two or more tool calls and every order in which
\* their executions complete, the tool messages appended to the transcript and
\* to the pending writes are in the order of the original call list.
OrderingInvariant ==
    Len(round.calls) >= 2 =>
        /\ Ids(round.tool_messages) = CallOrder(round.calls)
        /\ Ids(round.tool_writes) = CallOrder(round.calls)

\* more calls than the semaphore admits at once, completed last call first
OrderingInvariantWitness ==
    /\ Len(round.calls) = MaxBatch
    /\ round.arrival[1] = TOOL_MAX_PARALLEL
    /\ round.arrival[Len(round.arrival)] = 1
    /\ Ids(round.tool_messages) = CallOrder(round.calls)
    /\ Len(messages) > Len(round.calls) + 2

----------------------------------------------------------------------------
(* The same round, with tasks that are scheduled and tool calls that return *)

\* batches of every size up to MaxBatch
GateResponses ==
    {Response(FALSE, <<>>, <<>>,
              [i \in 1..n |-> ToolCall(CallIds[i], "read_file",
                                       ArgsOf("filepath", JStr("a.py")))]) :
        n \in 1..MaxBatch}

GateChatStream == (\E answer \in GateResponses : LoopStream(answer)) /\ Still

GateNext ==
    \/ BatchSubmit
    \/ BatchChatRequest
    \/ GateChatStream
    \/ ToolStart
    \/ ToolDone
    \/ Gather

\* the event loop runs a task that can take the semaphore, and a tool call
\* that has started returns
SpecGate ==
    RoundInit /\ [][GateNext]_vars /\ WF_vars(ToolStart) /\ WF_vars(ToolDone)

Dispatched(i) == loop_pc = "tools" /\ i \in 1..Len(tasks) /\ tasks[i].state = "waiting"
Admitted(i) == i \in 1..Len(tasks) /\ tasks[i].state # "waiting"

\* C11: during execute_tools, for every batch size and every scheduling of the
\* tasks, the number of tool calls inside ToolManager.execute at the same time
\* never exceeds max_parallel_tools (which is never less than 1), and every
\* call of the batch is eventually admitted.
BoundedParallelism ==
    /\ [](max_parallel_tools >= 1 /\ Cardinality(Running) <= max_parallel_tools)
    /\ \A i \in 1..MaxBatch : Dispatched(i) ~> Admitted(i)

\* a batch larger than the limit: the gate is full and the last call waits
BoundedParallelismWitness ==
    /\ loop_pc = "tools"
    /\ Len(tasks) = MaxBatch
    /\ Cardinality(Running) = max_parallel_tools
    /\ tasks[MaxBatch].state = "waiting"

----------------------------------------------------------------------------
(* DatabaseManager: one handle, used by concurrent tasks without a mutex *)

MaxDbCalls == 3
LOCK_RETRIES == 20

DbCall(op) == [op |-> op, pc |-> "start", conn |-> 0, attempt |-> 0, reopened |-> FALSE]

OpenConnections == {n \in 1..Len(connections) : connections[n] = "open"}

NotDb == UNCHANGED <<sigVars, tmVars, session_tracker, chatVars, appVars, runVars,
                     storeVars, workerVars, persistVars>>

\* a task calls execute / fetchall / fetchone, or shutdown
DbBegin(op) ==
    /\ Len(db_calls) < MaxDbCalls
    /\ db_calls' = Append(db_calls, DbCall(op))
    /\ UNCHANGED <<_db, connections>>

\* get_db up to its await: "if self._db is None" awaits aiosqlite.connect,
\* else the handle is returned and the statement is sent on it
get_db(c) ==
    /\ db_calls[c].op = "execute"
    /\ db_calls[c].pc = "start"
    /\ db_calls[c].attempt < LOCK_RETRIES
    /\ db_calls' = [db_calls EXCEPT ![c].pc = IF _db = 0 THEN "connecting"
                                              ELSE "executing",
                                    ![c].conn = _db]
    /\ UNCHANGED <<_db, connections>>

\* aiosqlite.connect has returned: self._db = <the new connection>
Connected(c) ==
    /\ db_calls[c].pc = "connecting"
    /\ connections' = Append(connections, "open")
    /\ _db' = Len(connections) + 1
    /\ db_calls' = [db_calls EXCEPT ![c].pc = "pragmas"]

\* _apply_connection_pragmas on self._db and "return self._db". A closed
\* connection raises out of get_db, which execute calls outside its try; a
\* handle that is None by now is returned and fails at db.execute. In
\* _reopen_after_closed the returned handle is dropped and the loop calls
\* get_db again.
ConnectionReady(c) ==
    /\ db_calls[c].pc = "pragmas"
    /\ db_calls' =
          [db_calls EXCEPT
              ![c].pc = IF _db # 0 /\ connections[_db] = "closed" THEN "failed"
                        ELSE IF db_calls[c].reopened THEN "start"
                        ELSE IF _db = 0 THEN "failed"
                        ELSE "executing",
              ![c].conn = _db,
              ![c].reopened = FALSE]
    /\ UNCHANGED <<_db, connections>>

\* db.execute and db.commit have returned or raised. On a closed connection
\* the error either names "closed" (a ProgrammingError: the handle is dropped
\* and a connection reopened) or it does not, and execute raises it.
Executed(c, names_closed) ==
    /\ db_calls[c].pc = "executing"
    /\ IF connections[db_calls[c].conn] = "open"
       THEN /\ db_calls' = [db_calls EXCEPT ![c].pc = "done"]
            /\ UNCHANGED _db
       ELSE IF names_closed
            THEN /\ _db' = 0
                 /\ db_calls' = [db_calls EXCEPT ![c].pc = "connecting",
                                                 ![c].attempt = @ + 1,
                                                 ![c].reopened = TRUE]
            ELSE /\ db_calls' = [db_calls EXCEPT ![c].pc = "failed"]
                 /\ UNCHANGED _db
    /\ UNCHANGED connections

\* shutdown up to its await: "if self._db: await self._db.close()"
ShutdownBegin(c) ==
    /\ db_calls[c].op = "shutdown"
    /\ db_calls[c].pc = "start"
    /\ IF _db = 0
       THEN /\ db_calls' = [db_calls EXCEPT ![c].pc = "done"]
            /\ UNCHANGED connections
       ELSE /\ db_calls' = [db_calls EXCEPT ![c].pc = "closing", ![c].conn = _db]
            /\ connections' = [connections EXCEPT ![_db] = "closed"]
    /\ UNCHANGED _db

\* close has returned: self._db = None
ShutdownEnd(c) ==
    /\ db_calls[c].pc = "closing"
    /\ _db' = 0
    /\ db_calls' = [db_calls EXCEPT ![c].pc = "done"]
    /\ UNCHANGED connections

DbStart == (\E op \in {"execute", "shutdown"} : DbBegin(op)) /\ NotDb
DbGet == (\E c \in 1..Len(db_calls) : get_db(c)) /\ NotDb
DbConnected == (\E c \in 1..Len(db_calls) : Connected(c)) /\ NotDb
DbReady == (\E c \in 1..Len(db_calls) : ConnectionReady(c)) /\ NotDb
DbExecuted == (\E c \in 1..Len(db_calls), names_closed \in BOOLEAN :
                  Executed(c, names_closed)) /\ NotDb
DbShutdown == (\E c \in 1..Len(db_calls) : ShutdownBegin(c)) /\ NotDb
DbClosed == (\E c \in 1..Len(db_calls) : ShutdownEnd(c)) /\ NotDb

DbNext ==
    \/ DbStart
    \/ DbGet
    \/ DbConnected
    \/ DbReady
    \/ DbExecuted
    \/ DbShutdown
    \/ DbClosed

SpecDb == RoundInit /\ [][DbNext]_vars

\* C20: under every interleaving of store calls, shutdown and reopening, at
\* most one database connection is open at any time and it is the one the
\* manager's handle references: no open connection is left unreferenced.
SingleConnection ==
    /\ Cardinality(OpenConnections) <= 1
    /\ \A n \in OpenConnections : _db = n

----------------------------------------------------------------------------
(* Storage: the conversations and messages tables behind their caches *)

MaxStoreCalls == 3
Conversations == {1, 2}
MAX_MESSAGES_CACHE_CONVERSATIONS == 24

StoreCall(op, conv) == [op |-> op, conv |-> conv, pc |-> "start", rows |-> <<>>]

\* SELECT role, content, ... FROM messages WHERE conversation_id = ? ORDER BY id
SelectMessages(conv) ==
    LET rows == SelectSeq(tables.messages, LAMBDA r : r.conversation_id = conv)
    IN [i \in 1..Len(rows) |-> [role |-> rows[i].role, content |-> rows[i].content]]

Without(rows, k) == SubSeq(rows, 1, k - 1) \o SubSeq(rows, k + 1, Len(rows))

RECURSIVE OrderByUpdated(_)
OrderByUpdated(rows) ==
    IF rows = <<>> THEN <<>>
    ELSE LET k == CHOOSE i \in 1..Len(rows) :
                     \A j \in 1..Len(rows) : rows[j].updated_at <= rows[i].updated_at
         IN <<rows[k]>> \o OrderByUpdated(Without(rows, k))

\* SELECT id, title, updated_at FROM conversations ORDER BY updated_at DESC
SelectConversations ==
    LET rows == OrderByUpdated(tables.conversations)
    IN [i \in 1..Len(rows) |-> [id |-> rows[i].id, title |-> rows[i].title,
                                updated_at |-> rows[i].updated_at]]

CacheGet(cache, conv) ==
    IF \E i \in 1..Len(cache) : cache[i].id = conv
    THEN LET i == CHOOSE i \in 1..Len(cache) : cache[i].id = conv
         IN [hit |-> TRUE, msgs |-> cache[i].msgs]
    ELSE [hit |-> FALSE, msgs |-> <<>>]

\* self._messages_cache.pop(conversation_id, None)
CachePop(cache, conv) == SelectSeq(cache, LAMBDA e : e.id # conv)

\* a slip: a conversation that is already cached keeps its place
CachePutInPlace(cache, conv, msgs) ==
    LET put == IF \E i \in 1..Len(cache) : cache[i].id = conv
               THEN [i \in 1..Len(cache) |->
                        IF cache[i].id = conv THEN [id |-> conv, msgs |-> msgs]
                        ELSE cache[i]]
               ELSE Append(cache, [id |-> conv, msgs |-> msgs])
    IN IF Len(put) > MAX_MESSAGES_CACHE_CONVERSATIONS
       THEN SubSeq(put, Len(put) - MAX_MESSAGES_CACHE_CONVERSATIONS + 1, Len(put))
       ELSE put

\* self._messages_cache[conversation_id] = ...; move_to_end; popitem(last=False)
\* while more than MAX_MESSAGES_CACHE_CONVERSATIONS are held
CachePut(cache, conv, msgs) ==
    LET put == Append(CachePop(cache, conv), [id |-> conv, msgs |-> msgs])
    IN IF Len(put) > MAX_MESSAGES_CACHE_CONVERSATIONS
       THEN SubSeq(put, Len(put) - MAX_MESSAGES_CACHE_CONVERSATIONS + 1, Len(put))
       ELSE put

NoConversationsCache == [valid |-> FALSE, rows |-> <<>>]

NotStore == UNCHANGED <<sigVars, tmVars, session_tracker, chatVars, appVars, runVars,
                        dbVars, workerVars, persistVars>>

At(c, op, pc) == store_calls[c].op = op /\ store_calls[c].pc = pc
Goes(c, pc) == store_calls' = [store_calls EXCEPT ![c].pc = pc]
Tick == store_clock' = store_clock + 1

\* a task calls one of the operations of Storage
StoreBegin(op, conv) ==
    /\ Len(store_calls) < MaxStoreCalls
    /\ store_calls' = Append(store_calls, StoreCall(op, conv))
    /\ UNCHANGED <<tables, _conversations_cache, _messages_cache, store_read,
                   store_clock>>

\* create_conversation: the INSERT (an existing id violates the primary key
\* and the call raises), then on resumption the cache is dropped
create_conversation(c) ==
    \/ /\ At(c, "create_conversation", "start")
       /\ IF \E i \in 1..Len(tables.conversations) :
                 tables.conversations[i].id = store_calls[c].conv
          THEN /\ Goes(c, "failed")
               /\ UNCHANGED tables
          ELSE /\ Goes(c, "written")
               /\ tables' = [tables EXCEPT !.conversations =
                                Append(@, [id |-> store_calls[c].conv, title |-> "t",
                                           updated_at |-> store_clock])]
       /\ Tick
       /\ UNCHANGED <<_conversations_cache, _messages_cache, store_read>>
    \/ /\ At(c, "create_conversation", "written")
       /\ Goes(c, "done")
       /\ _conversations_cache' = NoConversationsCache
       /\ UNCHANGED <<tables, _messages_cache, store_read, store_clock>>

\* update_conversation_title: the UPDATE, then the cache is dropped
update_conversation_title(c) ==
    \/ /\ At(c, "update_conversation_title", "start")
       /\ Goes(c, "written")
       /\ tables' = [tables EXCEPT !.conversations =
                        [i \in 1..Len(@) |->
                            IF @[i].id = store_calls[c].conv
                            THEN [@[i] EXCEPT !.title = "u", !.updated_at = store_clock]
                            ELSE @[i]]]
       /\ Tick
       /\ UNCHANGED <<_conversations_cache, _messages_cache, store_read>>
    \/ /\ At(c, "update_conversation_title", "written")
       /\ Goes(c, "done")
       /\ _conversations_cache' = NoConversationsCache
       /\ UNCHANGED <<tables, _messages_cache, store_read, store_clock>>

\* save_message: the INSERT, the UPDATE of updated_at, and only then, on
\* resumption, both caches are invalidated
SaveMessage(c) ==
    \/ /\ At(c, "save_message", "start")
       /\ Goes(c, "inserted")
       /\ tables' = [tables EXCEPT !.messages =
                        Append(@, [conversation_id |-> store_calls[c].conv,
                                   role |-> "assistant",
                                   content |-> <<ToString(store_clock)>>])]
       /\ Tick
       /\ UNCHANGED <<_conversations_cache, _messages_cache, store_read>>
    \/ /\ At(c, "save_message", "inserted")
       /\ Goes(c, "updated")
       /\ tables' = [tables EXCEPT !.conversations =
                        [i \in 1..Len(@) |->
                            IF @[i].id = store_calls[c].conv
                            THEN [@[i] EXCEPT !.updated_at = store_clock]
                            ELSE @[i]]]
       /\ Tick
       /\ UNCHANGED <<_conversations_cache, _messages_cache, store_read>>
    \/ /\ At(c, "save_message", "updated")
       /\ Goes(c, "done")
       /\ _conversations_cache' = NoConversationsCache
       /\ _messages_cache' = CachePop(_messages_cache, store_calls[c].conv)
       /\ UNCHANGED <<tables, store_read, store_clock>>

\* get_messages: a cached list is returned at once; else the rows are fetched
\* and, on resumption, cached and returned
get_messages(c) ==
    \/ /\ At(c, "get_messages", "start")
       /\ LET cached == CacheGet(_messages_cache, store_calls[c].conv) IN
          IF cached.hit
          THEN /\ Goes(c, "done")
               /\ _messages_cache' =
                     CachePut(_messages_cache, store_calls[c].conv, cached.msgs)
               /\ store_read' = [op |-> "get_messages", conv |-> store_calls[c].conv,
                                 result |-> cached.msgs,
                                 uncached |-> SelectMessages(store_calls[c].conv),
                                 cached |-> TRUE]
          ELSE /\ store_calls' =
                     [store_calls EXCEPT
                         ![c].pc = "fetched",
                         ![c].rows = SelectMessages(store_calls[c].conv)]
               /\ UNCHANGED <<_messages_cache, store_read>>
       /\ UNCHANGED <<tables, _conversations_cache, store_clock>>
    \/ /\ At(c, "get_messages", "fetched")
       /\ Goes(c, "done")
       /\ _messages_cache' =
             CachePut(_messages_cache, store_calls[c].conv, store_calls[c].rows)
       /\ store_read' = [op |-> "get_messages", conv |-> store_calls[c].conv,
                         result |-> store_calls[c].rows,
                         uncached |-> store_calls[c].rows, cached |-> FALSE]
       /\ UNCHANGED <<tables, _conversations_cache, store_clock>>

\* list_conversations: the cached list, or the rows fetched and then cached
list_conversations(c) ==
    \/ /\ At(c, "list_conversations", "start")
       /\ IF _conversations_cache.valid
          THEN /\ Goes(c, "done")
               /\ store_read' = [op |-> "list_conversations", conv |-> 0,
                                 result |-> _conversations_cache.rows,
                                 uncached |-> SelectConversations, cached |-> TRUE]
          ELSE /\ store_calls' = [store_calls EXCEPT ![c].pc = "fetched",
                                                     ![c].rows = SelectConversations]
               /\ UNCHANGED store_read
       /\ UNCHANGED <<tables, _conversations_cache, _messages_cache, store_clock>>
    \/ /\ At(c, "list_conversations", "fetched")
       /\ Goes(c, "done")
       /\ _conversations_cache' = [valid |-> TRUE, rows |-> store_calls[c].rows]
       /\ store_read' = [op |-> "list_conversations", conv |-> 0,
                         result |-> store_calls[c].rows,
                         uncached |-> store_calls[c].rows, cached |-> FALSE]
       /\ UNCHANGED <<tables, _messages_cache, store_clock>>

\* the three DELETEs of delete_all_conversations (keep = 0) and of
\* delete_conversations_except, each awaited
Deletes(c, op, keep) ==
    \/ /\ At(c, op, "start")
       /\ Goes(c, "history deleted")
       /\ UNCHANGED tables
    \/ /\ At(c, op, "history deleted")
       /\ Goes(c, "messages deleted")
       /\ tables' = [tables EXCEPT !.messages =
                        SelectSeq(@, LAMBDA r : keep # 0 /\ r.conversation_id = keep)]
    \/ /\ At(c, op, "messages deleted")
       /\ Goes(c, "conversations deleted")
       /\ tables' = [tables EXCEPT !.conversations =
                        SelectSeq(@, LAMBDA r : keep # 0 /\ r.id = keep)]

\* delete_all_conversations: the caches are emptied after the last DELETE
delete_all_conversations(c) ==
    \/ /\ Deletes(c, "delete_all_conversations", 0)
       /\ UNCHANGED <<_conversations_cache, _messages_cache, store_read, store_clock>>
    \/ /\ At(c, "delete_all_conversations", "conversations deleted")
       /\ Goes(c, "done")
       /\ _messages_cache' = <<>>
       /\ _conversations_cache' = [valid |-> TRUE, rows |-> <<>>]
       /\ UNCHANGED <<tables, store_read, store_clock>>

\* delete_conversations_except(keep): the kept conversation's cached messages
\* survive, the list of conversations is dropped
delete_conversations_except(c) ==
    \/ /\ Deletes(c, "delete_conversations_except", store_calls[c].conv)
       /\ UNCHANGED <<_conversations_cache, _messages_cache, store_read, store_clock>>
    \/ /\ At(c, "delete_conversations_except", "conversations deleted")
       /\ Goes(c, "done")
       /\ LET kept == CacheGet(_messages_cache, store_calls[c].conv) IN
             _messages_cache' = IF kept.hit
                                THEN <<[id |-> store_calls[c].conv, msgs |-> kept.msgs]>>
                                ELSE <<>>
       /\ _conversations_cache' = NoConversationsCache
       /\ UNCHANGED <<tables, store_read, store_clock>>

StoreOps == {"create_conversation", "update_conversation_title", "save_message",
             "get_messages", "list_conversations", "delete_all_conversations",
             "delete_conversations_except"}

StoreStart == (\E op \in StoreOps, conv \in Conversations : StoreBegin(op, conv))
              /\ NotStore
Create == (\E c \in 1..Len(store_calls) : create_conversation(c)) /\ NotStore
Retitle == (\E c \in 1..Len(store_calls) : update_conversation_title(c)) /\ NotStore
Save == (\E c \in 1..Len(store_calls) : SaveMessage(c)) /\ NotStore
GetMessages == (\E c \in 1..Len(store_calls) : get_messages(c)) /\ NotStore
ListConversations == (\E c \in 1..Len(store_calls) : list_conversations(c)) /\ NotStore
DeleteAll == (\E c \in 1..Len(store_calls) : delete_all_conversations(c)) /\ NotStore
DeleteExcept == (\E c \in 1..Len(store_calls) : delete_conversations_except(c))
                /\ NotStore

StoreNext ==
    \/ StoreStart
    \/ Create
    \/ Retitle
    \/ Save
    \/ GetMessages
    \/ ListConversations
    \/ DeleteAll
    \/ DeleteExcept

SpecStore == RoundInit /\ [][StoreNext]_vars

\* C19: for every interleaving of the writes and the reads at their
\* suspension points, what a read returns is what the same read returns with
\* the caches disabled, that is, the rows of the tables at that moment.
CacheTransparency == store_read.result = store_read.uncached

----------------------------------------------------------------------------
(* A run that is cancelled: the stream event by event, the tool round *)

MaxCancelRequests == 2

CancelResponses ==
    {Response(FALSE, <<"r">>, <<"a", "b">>,
              [i \in 1..n |-> ToolCall(CallIds[i], "read_file",
                                       ArgsOf("filepath", JStr("a.py")))]) :
        n \in 0..2}

OnlyStream == UNCHANGED <<conversation_id, is_shutting_down, write_ids, row_convs,
                          appended, finalizer, commands>>

CancelChatRequest == LoopRequest(MaxCancelRequests) /\ Still
Open == (\E answer \in CancelResponses : StreamOpen(answer)) /\ Elsewhere /\ OnlyStream
Consume == StreamEvent /\ Elsewhere /\ OnlyStream
Exhausted == StreamExhausted /\ Elsewhere /\ OnlyStream

CancelNext ==
    \/ BatchSubmit
    \/ CancelChatRequest
    \/ Open
    \/ Consume
    \/ Exhausted
    \/ ToolStart
    \/ ToolDone
    \/ Gather
    \/ RunEnd
    \/ Cancel

\* the event loop runs the tasks of a round and resumes execute_tools
SpecCancel ==
    RoundInit /\ [][CancelNext]_vars
    /\ WF_vars(ToolStart) /\ WF_vars(ToolDone) /\ WF_vars(Gather)

----------------------------------------------------------------------------
(* A turn in progress while the user goes on using the app: commands that
   replace the transcript, a message typed while the run winds down, the
   window being closed; the finally block of get_response write by write *)

MaxBusyTurns == 2
MaxBusyRuns == 1
MaxBusyRequests == 2
MaxCommands == 2
MaxConversations == 2

BusyResponses ==
    {Response(FALSE, <<>>, <<"done">>, <<>>),
     Response(FALSE, <<>>, <<>>,
              <<ToolCall(CallIds[1], "read_file", ArgsOf("filepath", JStr("a.py")))>>),
     Response(TRUE, <<>>, <<>>, <<>>)}

\* the n-th message appended to a transcript, and the conversation it was
\* appended for
Stamp(n) == [conv |-> conversation_id, seq |-> Len(appended) + n]
Stamps(n) == [i \in 1..n |-> Stamp(i)]

\* get_response is suspended: in its worker before the first round, in the
\* stream, in gather or in a save_message; or it is not running. Between the
\* end of a round and the next request, and between the loop and the first
\* save, it does not give up control.
AtAwait ==
    \/ loop_pc \in {"off", "streaming", "tools", "saving"}
    \/ loop_pc = "chat" /\ turn.requests = 0

\* the pending writes the action adds are those of the messages it appends
WritesStamped ==
    LET n == Len(pending_writes') - Len(pending_writes) IN
    /\ appended' = appended \o Stamps(n)
    /\ write_ids' = write_ids \o Stamps(n)

\* handle_input -> _submit_user_message up to the return of save_message: the
\* message is appended and stored as soon as no run is streaming
SubmitSaved(user_input) ==
    /\ AtAwait
    /\ turn_pc = "idle"
    /\ ~is_streaming
    /\ ~is_shutting_down
    /\ turn.n < MaxBusyTurns
    /\ messages' = Append(messages, UserMsg(user_input))
    /\ storage' = save_message(storage, "user", user_input)
    /\ appended' = Append(appended, Stamp(1))
    /\ row_convs' = Append(row_convs, Stamp(1))
    /\ turn_pc' = "submitted"
    /\ turn' = [turn EXCEPT !.n = @ + 1]
    /\ UNCHANGED <<http_service, mode, is_streaming, plan_tracker, active_agent,
                   notifications, loop_pc, pending_writes, tool_calls, tasks, arrival,
                   compact_pc, round, compaction, session_tracker, conversation_id,
                   is_shutting_down, write_ids, finalizer, stream_in, commands>>

\* handle_user_turn in Build mode: _start_ai_run, once the run before it is over
TurnStarts ==
    /\ turn_pc = "submitted"
    /\ loop_pc = "off"
    /\ turn.n <= MaxBusyRuns
    /\ ~is_shutting_down
    /\ turn_pc' = "idle"
    /\ StartAiRun
    /\ turn' = [turn EXCEPT !.requests = 0, !.sigs = <<>>, !.base = Len(messages),
                            !.saved_base = Len(storage)]
    /\ write_ids' = <<>>
    /\ finalizer' = NoFinalizer
    /\ UNCHANGED <<http_service, mode, messages, storage, plan_tracker, active_agent,
                   notifications, compact_pc, round, compaction, session_tracker,
                   conversation_id, is_shutting_down, row_convs, appended, stream_in,
                   commands>>

\* a slip: the writes are saved although the app is shutting down
SkipsWritesNever(shutting_down) == FALSE

\* "if not getattr(self.app, 'is_shutting_down', False)" around the saves
SkipsWrites(shutting_down) == shutting_down

Finalizer(state, idx, flushed) == [state |-> state, idx |-> idx, flushed |-> flushed]

SaveOutcomes == {"saved", "closed", "error"}

\* a slip: the save that raised does not end the loop of the finally block
IssueWriteGoesOn(j, outcome, flushed) ==
    IF outcome = "saved"
    THEN /\ storage' = Append(storage, RowOf(pending_writes[j]))
         /\ row_convs' = Append(row_convs, write_ids[j])
         /\ finalizer' = Finalizer("saving", j, Append(flushed, pending_writes[j]))
         /\ loop_pc' = "saving"
    ELSE /\ finalizer' = Finalizer(IF outcome = "closed" THEN "dropped" ELSE "raised",
                                   j, flushed)
         /\ loop_pc' = "saving"
         /\ UNCHANGED <<storage, row_convs>>

\* save_message(pending_writes[j]) is called: its INSERT is queued on the
\* connection before the caller is suspended. With outcome "closed" it raises
\* an error that has "closed" in its text (break), with "error" another error
\* (raise); either ends the loop.
IssueWrite(j, outcome, flushed) ==
    IF outcome = "saved"
    THEN /\ storage' = Append(storage, RowOf(pending_writes[j]))
         /\ row_convs' = Append(row_convs, write_ids[j])
         /\ finalizer' = Finalizer("saving", j, Append(flushed, pending_writes[j]))
         /\ loop_pc' = "saving"
    ELSE /\ finalizer' = Finalizer(IF outcome = "closed" THEN "dropped" ELSE "raised",
                                   j, flushed)
         /\ loop_pc' = "off"
         /\ UNCHANGED <<storage, row_convs>>

\* the loop is left and the finally block reaches its first save_message
LoopFinally(outcome) ==
    /\ LoopLeaves
    /\ outcome = "closed" => is_shutting_down
    /\ IF SkipsWrites(is_shutting_down) \/ pending_writes = <<>>
       THEN /\ finalizer' = Finalizer(IF SkipsWrites(is_shutting_down) THEN "skipped"
                                      ELSE "saved", 0, <<>>)
            /\ loop_pc' = "off"
            /\ UNCHANGED <<storage, row_convs>>
       ELSE IssueWrite(1, outcome, <<>>)
    /\ UNCHANGED <<http_service, mode, active_agent, notifications, turn_pc,
                   pending_writes, tool_calls, tasks, arrival, turn, round,
                   session_tracker, conversation_id, is_shutting_down, write_ids,
                   appended, stream_in, commands>>

\* "for w in pending_writes": a save_message has returned; the next one is
\* called, or the loop is over
SaveReturns(outcome) ==
    /\ loop_pc = "saving"
    /\ outcome = "closed" => is_shutting_down
    /\ IF finalizer.idx = Len(pending_writes)
       THEN /\ finalizer' = [finalizer EXCEPT !.state = "saved"]
            /\ loop_pc' = "off"
            /\ UNCHANGED <<storage, row_convs>>
       ELSE IssueWrite(finalizer.idx + 1, outcome, finalizer.flushed)
    /\ UNCHANGED <<http_service, mode, messages, is_streaming, plan_tracker,
                   active_agent, notifications, turn_pc, pending_writes, tool_calls,
                   tasks, arrival, compact_pc, turn, round, compaction, session_tracker,
                   conversation_id, is_shutting_down, write_ids, appended, stream_in,
                   commands>>

UsedConversations ==
    {conversation_id} \cup {appended[i].conv : i \in 1..Len(appended)}
NewConversation ==
    CHOOSE n \in 1..(MaxConversations + 1) :
        /\ n \notin UsedConversations
        /\ \A k \in 1..(n - 1) : k \in UsedConversations

\* CommandHandler._handle_new_chat, reached from "/new" whatever the app is
\* doing: a new conversation id and an empty transcript
NewChat ==
    /\ AtAwait
    /\ ~is_shutting_down
    /\ commands < MaxCommands
    /\ NewConversation <= MaxConversations
    /\ conversation_id' = NewConversation
    /\ messages' = <<>>
    /\ plan_tracker' = NoTracker
    /\ notifications' = notifications \cup {"New conversation started"}
    /\ commands' = commands + 1
    /\ UNCHANGED <<http_service, mode, storage, is_streaming, active_agent, turn_pc,
                   loop_pc, pending_writes, tool_calls, tasks, arrival, compact_pc,
                   turn, round, compaction, session_tracker, is_shutting_down,
                   write_ids, row_convs, appended, finalizer, stream_in>>

\* the rows of one conversation, in the order of their ids
RowsOf(conv) ==
    LET F[n \in 0..Len(storage)] ==
            IF n = 0 THEN <<>>
            ELSE IF row_convs[n].conv = conv THEN Append(F[n - 1], storage[n])
            ELSE F[n - 1]
    IN F[Len(storage)]

\* a conversation is listed once its first user message has created it
IsListed(conv) ==
    \E r \in 1..Len(storage) : row_convs[r].conv = conv /\ storage[r].role = "user"

\* app.load_conversation(conv), reached from "/conversations"
LoadStored(conv) ==
    /\ AtAwait
    /\ ~is_shutting_down
    /\ commands < MaxCommands
    /\ IsListed(conv)
    /\ conversation_id' = conv
    /\ messages' = [i \in 1..Len(RowsOf(conv)) |-> MsgOf(RowsOf(conv)[i])]
    /\ plan_tracker' = NoTracker
    /\ commands' = commands + 1
    /\ UNCHANGED <<http_service, mode, storage, is_streaming, active_agent,
                   notifications, turn_pc, loop_pc, pending_writes, tool_calls, tasks,
                   arrival, compact_pc, turn, round, compaction, session_tracker,
                   is_shutting_down, write_ids, row_convs, appended, finalizer,
                   stream_in>>

\* app.on_unmount up to its first await
Unmount ==
    /\ AtAwait
    /\ ~is_shutting_down
    /\ is_shutting_down' = TRUE
    /\ is_streaming' = FALSE
    /\ UNCHANGED <<http_service, mode, messages, storage, plan_tracker, active_agent,
                   notifications, turn_pc, loop_pc, pending_writes, tool_calls, tasks,
                   arrival, compact_pc, turn, round, compaction, session_tracker,
                   conversation_id, write_ids, row_convs, appended, finalizer,
                   stream_in, commands>>

Stamped == UNCHANGED <<conversation_id, is_shutting_down, row_convs, finalizer,
                       stream_in, commands>>

BusySubmit == SubmitSaved(<<"hi">>) /\ Elsewhere
BusyTurnStart == TurnStarts /\ Elsewhere
BusyChatRequest == LoopRequest(MaxBusyRequests) /\ Still
BusyChatStream == (\E answer \in BusyResponses : LoopStream(answer))
                  /\ WritesStamped /\ Stamped /\ Elsewhere
BusyToolDone == (\E outcome \in HandlerOutcomes : TaskComplete(1, outcome)) /\ Still
BusyGather == GatherResults /\ WritesStamped /\ Stamped /\ Elsewhere
BusyFinally == (\E outcome \in SaveOutcomes : LoopFinally(outcome)) /\ Elsewhere
BusySave == (\E outcome \in SaveOutcomes : SaveReturns(outcome)) /\ Elsewhere
BusyCancel == AtAwait /\ CancelRequest /\ Still
BusyNewChat == NewChat /\ Elsewhere
BusyLoad == (\E conv \in 1..MaxConversations : LoadStored(conv)) /\ Elsewhere
BusyUnmount == Unmount /\ Elsewhere

BusyNext ==
    \/ BusySubmit
    \/ BusyTurnStart
    \/ BusyChatRequest
    \/ BusyChatStream
    \/ ToolStart
    \/ BusyToolDone
    \/ BusyGather
    \/ BusyFinally
    \/ BusySave
    \/ BusyCancel
    \/ BusyNewChat
    \/ BusyLoad
    \/ BusyUnmount

SpecBusy == RoundInit /\ [][BusyNext]_vars

RefersBack(ms, i) ==
    \E j \in 1..(i - 1) :
        /\ ms[j].role = "assistant"
        /\ \E k \in 1..Len(ms[j].tool_calls) : ms[j].tool_calls[k].id = ms[i].tool_call_id

\* C12: in every reachable state of the transcript, every message with role
\* tool refers by tool_call_id to a tool_calls entry of an assistant message
\* before it, whatever commands replaced the transcript during the turn.
TranscriptWellFormed ==
    \A i \in 1..Len(messages) : messages[i].role = "tool" => RefersBack(messages, i)

\* C13: for each conversation, the rows are written to the store in the order
\* in which their messages were appended to the transcript.
DurableOrder ==
    \A r1, r2 \in 1..Len(row_convs) :
        r1 < r2 /\ row_convs[r1].conv = row_convs[r2].conv =>
            row_convs[r1].seq < row_convs[r2].seq

FinalizerOver == finalizer.state \in {"saved", "skipped", "dropped", "raised"}

\* C14: on every way out of get_response, every pending write of the turn is
\* saved to the store, once and in the order of emission.
FinalizerCompleteness ==
    FinalizerOver => finalizer.flushed = pending_writes

StoredOnce(j) ==
    /\ Cardinality({r \in 1..Len(row_convs) : row_convs[r] = write_ids[j]}) = 1
    /\ \A r \in 1..Len(row_convs) :
          row_convs[r] = write_ids[j] => storage[r] = RowOf(pending_writes[j])

\* C14 as the code has it: on every way out of get_response the pending writes
\* are saved once each and in the order of emission, all of them unless the
\* app is shutting down (none is saved) or a save raises (the writes before
\* the one that raised are saved, the others are not).
FinalizerSavesInOrder ==
    /\ [](/\ finalizer.state = "skipped" => is_shutting_down /\ finalizer.flushed = <<>>
          /\ finalizer.state = "saved" => finalizer.flushed = pending_writes
          /\ finalizer.state = "saving" =>
                finalizer.flushed = SubSeq(pending_writes, 1, finalizer.idx)
          /\ finalizer.state \in {"dropped", "raised"} =>
                /\ finalizer.idx \in 1..Len(pending_writes)
                /\ finalizer.flushed = SubSeq(pending_writes, 1, finalizer.idx - 1)
          /\ \A j \in 1..Len(finalizer.flushed) : StoredOnce(j)
          /\ finalizer.state = "none" => \A j \in 1..Len(write_ids) :
                \A r \in 1..Len(row_convs) : row_convs[r] # write_ids[j])
    /\ [][/\ loop_pc \in {"finalize", "finally"}
          /\ loop_pc' \notin {"finalize", "finally"}
          => IF is_shutting_down
             THEN finalizer'.state = "skipped" /\ storage' = storage
             ELSE finalizer'.state \in IF pending_writes = <<>> THEN {"saved"}
                                       ELSE {"saving", "raised"}]_vars
    /\ [][finalizer'.state = "dropped" /\ finalizer.state # "dropped" =>
             is_shutting_down]_vars

\* a run that ended with an error after a tool round: its two writes are
\* in the store
FinalizerSavesInOrderWitness ==
    /\ finalizer.state = "saved"
    /\ "error" \in notifications
    /\ Len(pending_writes) = 2
    /\ finalizer.flushed = pending_writes
    /\ ~is_shutting_down

----------------------------------------------------------------------------
(* get_response: errors of the loop *)

\* C21: an exception raised inside the loop of get_response is caught there
\* and becomes an error notification; it does not leave get_response (only a
\* failed save of the finally block does), and once get_response is over
\* is_streaming is false and the turn issues no further chat request (the
\* next submitted turn starts its own run).
SafeIdleAfterError ==
    /\ [](FinalizerOver => ~is_streaming)
    /\ []("error" \in notifications /\ FinalizerOver /\ pending_writes = <<>> =>
             finalizer.state \in {"saved", "skipped"})
    /\ [][loop_pc = "streaming" /\ loop_pc' \in {"finally", "off"} =>
             /\ loop_pc' = "finally"
             /\ "error" \in notifications'
             /\ finalizer' = finalizer]_vars
    /\ [][(loop_pc \in {"finalize", "finally", "saving"} \/ FinalizerOver) =>
             (/\ loop_pc' # "streaming"
              /\ \/ turn'.requests = turn.requests
                 \/ turn_pc = "submitted" /\ loop_pc = "off" /\ finalizer' = NoFinalizer)]_vars

\* the first request of a turn failed: the user was told, nothing was there to
\* save, get_response returned and the session is idle
SafeIdleAfterErrorWitness ==
    /\ loop_pc = "off"
    /\ "error" \in notifications
    /\ turn.requests = 1
    /\ pending_writes = <<>>
    /\ finalizer.state = "saved"
    /\ ~is_streaming

----------------------------------------------------------------------------
(* HttpService.chat: the fallbacks of the first request *)

StreamOptionsRejected(req, error) ==
    req.stream_options /\ _is_stream_options_unsupported(error)
ToolsRejected(req, error) == req.tools /\ _is_tool_calling_unsupported(error)

\* C22: a failed first request is retried once without stream_options when the
\* option was sent and the error says it is unsupported; otherwise once without
\* tools when tools were sent and the error says tool calling is unsupported;
\* otherwise the failure propagates. A failed retry propagates, so that one
\* invocation sends at most 2 requests.
OneShotFallback ==
    /\ [](/\ Len(provider_calls) <= 2
          /\ Len(provider_calls) = 2 =>
                LET first == provider_calls[1]
                    retry == provider_calls[2]
                IN IF StreamOptionsRejected(first, first.answer)
                   THEN retry = Request(first.stream, FALSE, first.tools)
                   ELSE /\ ToolsRejected(first, first.answer)
                        /\ retry = Request(first.stream, first.stream_options, FALSE)
          /\ \A i \in 1..Len(chat_log) :
                /\ Len(chat_log[i].calls) <= 2
                /\ chat_log[i].outcome = "failed" /\ Len(chat_log[i].calls) = 1 =>
                      /\ ~StreamOptionsRejected(chat_log[i].calls[1], chat_log[i].error)
                      /\ ~ToolsRejected(chat_log[i].calls[1], chat_log[i].error))
    /\ [][chat_pc = "first_request" /\ chat_pc' = "failed" =>
             provider_calls' = provider_calls]_vars
    /\ [][chat_pc = "retry_request" =>
             /\ provider_calls' = provider_calls
             /\ chat_pc' \in {"failed", "streaming", "response"}]_vars

\* the first error named both options: stream_options was dropped, the tools
\* were kept, the retry was rejected for its tools and no third request
\* followed
OneShotFallbackWitness ==
    /\ chat_pc = "failed"
    /\ Len(provider_calls) = 2
    /\ StreamOptionsRejected(provider_calls[1], provider_calls[1].answer)
    /\ ToolsRejected(provider_calls[1], provider_calls[1].answer)
    /\ provider_calls[2].tools
    /\ ToolsRejected(provider_calls[2], chat_log[Len(chat_log)].error)
    /\ ~_tool_calling_disabled

----------------------------------------------------------------------------
(* HttpService.chat: the order of the events of a stream *)

\* the reasoning and content deltas of the frames, as events, in arrival order
RECURSIVE ArrivedText(_)
ArrivedText(frames) ==
    IF Len(frames) = 0 THEN <<>>
    ELSE LET f == Head(frames) IN
         (IF f.reasoning # "" THEN <<Event("reasoning", f.reasoning)>> ELSE <<>>)
         \o (IF f.content # "" THEN <<Event("content", f.content)>> ELSE <<>>)
         \o ArrivedText(Tail(frames))

\* C23: in streaming mode the reasoning and content events are yielded in the
\* arrival order of their deltas; the tool_call events are yielded after all
\* of them and only once the stream is exhausted, one per accumulated index in
\* the order in which the indexes were first seen, whatever the order in which
\* later fragments arrived.
EventOrdering ==
    LET texts == SelectSeq(chat_events, LAMBDA e : e.kind # "tool_call")
        calls == EventsOfKind("tool_call")
        order == FirstSeen(SentDeltas, {})
    IN /\ texts = ArrivedText(DeltaFrames)
       /\ chat_events = texts \o calls
       /\ chat_pc = "streaming" => calls = <<>>
       /\ Len(calls) = chat_emitted
       /\ Len(calls) <= Len(order)
       /\ chat_pc = "done" => Len(calls) = Len(order)
       /\ \A i \in 1..Len(calls) :
             LET text == ConcatArguments(FragmentsOf(order[i])) IN
             /\ calls[i].data.name = ConcatNames(FragmentsOf(order[i]))
             /\ JsonLoads(text).ok => calls[i].data.arguments = JsonLoads(text).value

\* index 1 was seen first, index 0 second, and the rest of index 1 arrived
\* last: the call of index 1 is yielded first, whole
EventOrderingWitness ==
    /\ chat_pc = "done"
    /\ FirstSeen(SentDeltas, {}) = <<1, 0>>
    /\ Len(SentDeltas) = 3
    /\ SentDeltas[3].index = 1
    /\ Len(EventsOfKind("tool_call")) = 2
    /\ EventsOfKind("tool_call")[1].data.name = "read_file"
    /\ EventsOfKind("tool_call")[2].data.name = ""

\* the first non-empty id among the fragments, "" when none has one
RECURSIVE FirstId(_)
FirstId(ds) ==
    IF Len(ds) = 0 THEN ""
    ELSE IF Head(ds).id # "" THEN Head(ds).id
    ELSE FirstId(Tail(ds))

\* C24: for every index, the id of the tool_call event of a completed stream
\* is the first non-empty id that a delta of that index carried; the ids of
\* later fragments of the index do not change it.
FirstIdKept ==
    chat_pc = "done" /\ chat_args.stream =>
        LET order == FirstSeen(SentDeltas, {})
            calls == EventsOfKind("tool_call")
        IN \A i \in 1..Len(calls) : calls[i].data.id = FirstId(FragmentsOf(order[i]))

----------------------------------------------------------------------------
(* HttpService.chat: arguments that do not parse *)

LastLog == chat_log[Len(chat_log)]

\* C25: in streaming mode a tool call whose accumulated arguments are not
\* valid JSON is yielded with empty arguments, the other calls of the stream
\* keep theirs and the invocation completes; in non-streaming mode a tool call
\* whose arguments do not parse makes the invocation fail through "except
\* Exception", and only that does.
ParseFailureAsymmetry ==
    /\ chat_pc = "done" /\ chat_args.stream =>
          LET order == FirstSeen(SentDeltas, {})
              calls == EventsOfKind("tool_call")
          IN /\ Len(calls) = Len(order)
             /\ \A i \in 1..Len(order) :
                   LET text == ConcatArguments(FragmentsOf(order[i])) IN
                   calls[i].data.arguments =
                       IF JsonLoads(text).ok THEN JsonLoads(text).value ELSE EmptyObj
    /\ chat_args.stream => chat_error # ErrJsonDecode
    /\ ChatOver /\ ~chat_args.stream /\ Len(chat_frames) = 1 =>
          LET tcs == chat_frames[1].tool_calls
              unparsable == \E i \in 1..Len(tcs) : ~JsonLoads(tcs[i].arguments).ok
          IN IF unparsable
             THEN /\ chat_pc = "failed"
                  /\ chat_error = ErrJsonDecode
                  /\ LastLog.outcome = "failed"
                  /\ LastLog.raised = ErrJsonDecode
             ELSE /\ chat_pc = "done"
                  /\ Len(EventsOfKind("tool_call")) = Len(tcs)

\* a completed stream with two calls: the arguments of the first-seen one do
\* not parse and are empty, those of the other are parsed
ParseFailureStreamWitness ==
    /\ chat_pc = "done"
    /\ chat_args.stream
    /\ FirstSeen(SentDeltas, {}) = <<1, 0>>
    /\ ~JsonLoads(ConcatArguments(FragmentsOf(1))).ok
    /\ EventsOfKind("tool_call")[1].data.arguments = EmptyObj
    /\ EventsOfKind("tool_call")[2].data.arguments # EmptyObj

----------------------------------------------------------------------------
(* ToolOrchestrator.execute_tools: what a round returns *)

RoundOver == round.calls # <<>>
ErrorResults(ms) == {i \in 1..Len(ms) : StartsWith(ms[i].content, ErrorPrefix)}

\* execute_tools on the empty batch, from the state the app is in
EmptyRound ==
    ApplyResults(OrderedResults(<<>>, <<>>, <<>>),
                 [messages |-> messages, pending_writes |-> pending_writes,
                  active_agent |-> active_agent, handoffs |-> 0, failures |-> 0,
                  successes |-> 0, exec_count |-> 0])

\* C26: with ToolManager.execute behind it, execute_tools appends exactly one
\* tool message for every call of the batch, with that call's id; exec_count is
\* the number of calls, success_count plus the number of results that begin
\* with "Error:" is exec_count, and should_continue is true iff a call was
\* executed (false for the empty batch).
OneResultPerCall ==
    /\ RoundOver =>
          /\ Ids(round.tool_messages) = CallOrder(round.calls)
          /\ Ids(round.tool_writes) = CallOrder(round.calls)
          /\ round.exec_count = Len(round.calls)
          /\ round.successes + Cardinality(ErrorResults(round.tool_messages))
                = round.exec_count
          /\ round.should_continue <=> round.exec_count > 0
    /\ EmptyRound.exec_count = 0
    /\ EmptyRound.messages = messages

\* a full batch in which a call succeeded, a call named no tool and a handoff
\* was applied: one tool message each
OneResultPerCallWitness ==
    /\ RoundOver
    /\ Len(round.calls) = MaxBatch
    /\ Len(round.tool_messages) = MaxBatch
    /\ round.successes \in 1..(MaxBatch - 1)
    /\ round.handoffs = 1
    /\ \E i \in 1..MaxBatch : round.calls[i].name = "no_such_tool"
    /\ round.should_continue

----------------------------------------------------------------------------
(* get_response: a round whose tools failed *)

----------------------------------------------------------------------------
(* One round of handoff requests *)

\* a round has at most MaxHandoffBatch calls
MaxHandoffBatch == 2

HandoffTo(to_agent, task) ==
    [name |-> "handoff_agent",
     arguments |-> JObj(<<[k |-> "to_agent", v |-> JStr(to_agent)],
                          [k |-> "task", v |-> JStr(task)]>>)]

\* handoffs to another agent, to the active agent, to nobody and with a blank
\* task, and a call that is no handoff
HandoffPool ==
    {HandoffTo("reviewer", "fix the bug"), HandoffTo("architect", "fix the bug"),
     HandoffTo(DEFAULT_AGENT_NAME, "fix the bug"), HandoffTo("nobody", "fix the bug"),
     HandoffTo("reviewer", "   "),
     [name |-> "read_file", arguments |-> ArgsOf("filepath", JStr("a.py"))]}
HandoffBatches ==
    UNION {{[i \in 1..n |-> ToolCall(CallIds[i], b[i].name, b[i].arguments)] :
               b \in [1..n -> HandoffPool]} : n \in 1..MaxHandoffBatch}

HandoffChatStream ==
    (\E batch \in HandoffBatches : LoopStream(Response(FALSE, <<>>, <<>>, batch))) /\ Still

HandoffNext ==
    \/ BatchSubmit
    \/ BatchChatRequest
    \/ HandoffChatStream
    \/ ToolStart
    \/ ToolDone
    \/ Gather

SpecHandoff == RoundInit /\ [][HandoffNext]_vars

HandoffCalls == {i \in 1..Len(round.calls) : round.calls[i].name = "handoff_agent"}
AppliedAt(i) ==
    /\ i \in HandoffCalls
    /\ StartsWith(round.tool_messages[i].content, <<"Handoff applied. ">>)

\* the payload the handler of call i returned, if it returned one that parses
PayloadAt(i) ==
    LET result == tasks[i].exec.result IN
    IF StartsWith(result, HANDOFF_PREFIX)
    THEN JsonLoads(SubSeq(result, Len(HANDOFF_PREFIX) + 1, Len(result)))
    ELSE [ok |-> FALSE, value |-> EmptyObj]

\* the active agent when the result of call i is applied
RECURSIVE AgentAt(_)
AgentAt(i) ==
    IF i = 1 THEN round.agent
    ELSE IF AppliedAt(i - 1) THEN PayloadField(PayloadAt(i - 1).value, "to_agent")
    ELSE AgentAt(i - 1)

SystemMessages(ms) == SelectSeq(ms, LAMBDA m : m.role = "system")

----------------------------------------------------------------------------
(* The run_ai workers: runs started while an earlier run is still going.
   This specification follows the control state only: the flag is_streaming,
   the workers and the queue. What "@work(exclusive=True)" does to the
   workers already running is the worker library's business: a new worker
   either cancels them or leaves them alone. *)

\* at most MaxWorkers runs are started, each with at most MaxWorkerRounds
\* rounds, and at most MaxQueued inputs wait in the queue
MaxWorkers == 3
MaxWorkerRounds == 2
MaxQueued == 2

\* a worker: where its run_ai is, the rounds it has begun, whether its task
\* has been cancelled, and whether its finally block took the flag from a
\* newer run that was streaming or in a tool round
Worker(pc, rounds, cancelled, ended) ==
    [pc |-> pc, rounds |-> rounds, cancelled |-> cancelled, ended |-> ended]

Live(w) == workers[w].pc # "off"
InRound(w) == workers[w].pc \in {"streaming", "tools"}
Goto(w, pc) == workers' = [workers EXCEPT ![w].pc = pc]

OnlyFlag ==
    UNCHANGED <<http_service, mode, messages, storage, plan_tracker, active_agent,
                notifications, turn_pc, loop_pc, pending_writes, tool_calls, tasks,
                arrival, compact_pc, turn, round, compaction, session_tracker,
                sigVars, tmVars, chatVars, runVars, storeVars, dbVars, persistVars>>

\* self.run_ai(user_input): a new worker; the workers that are running are
\* cancelled or not
run_ai(ws, cancels) ==
    Append([w \in 1..Len(ws) |->
               IF cancels /\ ws[w].pc # "off" THEN [ws[w] EXCEPT !.cancelled = TRUE]
               ELSE ws[w]],
           Worker("created", 0, FALSE, FALSE))

\* _submit_user_message -> handle_user_turn -> _start_ai_run
_start_ai_run(ws) ==
    /\ Len(workers) < MaxWorkers
    /\ is_streaming' = TRUE
    /\ \E cancels \in BOOLEAN : workers' = run_ai(ws, cancels)

\* _submit_user_message -> handle_user_turn: in Plan mode the plan is asked
\* for and no run is started yet, else the run starts
handle_user_turn(ws) ==
    IF mode = PLAN_MODE
    THEN /\ turn_pc' = "planning"
         /\ workers' = ws
         /\ UNCHANGED is_streaming
    ELSE /\ _start_ai_run(ws)
         /\ UNCHANGED turn_pc

\* handle_input: the input is queued while a run is streaming, else submitted
handle_input ==
    IF is_streaming
    THEN /\ Len(pending_user_queue) < MaxQueued
         /\ pending_user_queue' = Append(pending_user_queue, <<"hi">>)
         /\ UNCHANGED <<is_streaming, workers, turn_pc>>
    ELSE /\ handle_user_turn(workers)
         /\ UNCHANGED pending_user_queue

\* the worker's task runs for the first time: get_response up to the stream
\* of its first round. A task cancelled before it ran never runs.
get_response(w) ==
    /\ workers[w].pc = "created"
    /\ IF workers[w].cancelled
       THEN Goto(w, "off") /\ UNCHANGED is_streaming
       ELSE /\ is_streaming' = TRUE
            /\ workers' = [workers EXCEPT ![w].pc = "streaming", ![w].rounds = 1]
    /\ UNCHANGED pending_user_queue

\* the finally block of worker w: self.app.is_streaming = False
Finally(w, pc) ==
    /\ is_streaming' = FALSE
    /\ workers' = [workers EXCEPT
                      ![w].pc = pc,
                      ![w].ended = is_streaming /\ \E v \in (w + 1)..Len(workers) :
                                                      InRound(v)]

\* "async for" is over, exhausted or left by break: with tool calls consumed
\* the round goes on to execute_tools, without any the loop is left
StreamOver(w, has_calls) ==
    /\ workers[w].pc = "streaming"
    /\ ~workers[w].cancelled
    /\ IF has_calls THEN Goto(w, "tools") /\ UNCHANGED is_streaming
       ELSE Finally(w, "after")
    /\ UNCHANGED pending_user_queue

\* execute_tools has returned: "while self.app.is_streaming"
ToolsOver(w) ==
    /\ workers[w].pc = "tools"
    /\ ~workers[w].cancelled
    /\ IF is_streaming
       THEN /\ workers[w].rounds < MaxWorkerRounds
            /\ workers' = [workers EXCEPT ![w].pc = "streaming", ![w].rounds = @ + 1]
            /\ UNCHANGED is_streaming
       ELSE Finally(w, "after")
    /\ UNCHANGED pending_user_queue

\* the cancelled task is resumed at its await: CancelledError is no Exception,
\* so only the finally block runs and run_ai is left
TaskCancelled(w) ==
    /\ InRound(w)
    /\ workers[w].cancelled
    /\ Finally(w, "off")
    /\ UNCHANGED pending_user_queue

\* run_ai after get_response: the next queued input is submitted
RunAiOver(w) ==
    /\ workers[w].pc = "after"
    /\ IF pending_user_queue # <<>> /\ ~is_streaming
       THEN /\ pending_user_queue' = Tail(pending_user_queue)
            /\ handle_user_turn([workers EXCEPT ![w].pc = "off"])
       ELSE /\ Goto(w, "off")
            /\ UNCHANGED <<is_streaming, pending_user_queue, turn_pc>>

WorkerInput == handle_input /\ OnlyFlag
WorkerBegins == (\E w \in 1..Len(workers) : get_response(w)) /\ OnlyFlag
WorkerStreamOver ==
    (\E w \in 1..Len(workers), has_calls \in BOOLEAN : StreamOver(w, has_calls))
    /\ OnlyFlag
WorkerToolsOver == (\E w \in 1..Len(workers) : ToolsOver(w)) /\ OnlyFlag
WorkerCancelled == (\E w \in 1..Len(workers) : TaskCancelled(w)) /\ OnlyFlag
WorkerOver == (\E w \in 1..Len(workers) : RunAiOver(w)) /\ OnlyFlag

WorkersNext ==
    \/ WorkerInput
    \/ WorkerBegins
    \/ WorkerStreamOver
    \/ WorkerToolsOver
    \/ WorkerCancelled
    \/ WorkerOver
    \/ Cancel

SpecWorkers == RoundInit /\ [][WorkersNext]_vars

\* a run that is streaming or in a tool round and whose task is not cancelled
AtWork(w) == InRound(w) /\ ~workers[w].cancelled

\* C29: whatever the user submits, cancels and queues, at most one run is
\* streaming or executing a tool round at any time, and the finally block of
\* an older run never ends a newer one.
StrictlySequential ==
    /\ Cardinality({w \in 1..Len(workers) : AtWork(w)}) <= 1
    /\ \A w \in 1..Len(workers) : ~workers[w].ended

----------------------------------------------------------------------------
(* get_response: a save of the finally block fails *)

\* the pending writes of the turn from the j-th on are not in the store
Abandoned(j) ==
    \A k \in j..Len(write_ids) : \A r \in 1..Len(row_convs) : row_convs[r] # write_ids[k]

FinalizerAborted == finalizer.state \in {"dropped", "raised"}

\* C30: when a save of the finally block fails with an error that has
\* "closed" in its text, the failure is swallowed (no notification, no error
\* out of get_response) and the writes from the failed one on are abandoned;
\* when it fails with another error, the error leaves get_response and the
\* writes from the failed one on are not attempted; when the app is shutting
\* down as the finally block is reached, no pending write is attempted.
PersistenceFailureHandling ==
    /\ [](/\ FinalizerAborted => loop_pc = "off" /\ Abandoned(finalizer.idx)
          /\ finalizer.state = "skipped" => loop_pc = "off" /\ Abandoned(1)
          /\ loop_pc = "saving" => finalizer.state = "saving")
    /\ [][(FinalizerAborted' /\ ~FinalizerAborted) =>
             (/\ storage' = storage
              /\ row_convs' = row_convs
              /\ notifications' = notifications
              /\ finalizer'.flushed = finalizer.flushed)]_vars
    /\ [][(FinalizerAborted \/ finalizer.state = "skipped") =>
             (finalizer' = finalizer \/ finalizer' = NoFinalizer)]_vars
    /\ [][(loop_pc \in {"finalize", "finally"} /\ is_shutting_down
           /\ loop_pc' \notin {"finalize", "finally"}) =>
             (finalizer'.state = "skipped" /\ storage' = storage
              /\ row_convs' = row_convs)]_vars

\* a save raised an error without "closed" in its text while a later write of
\* the turn was still pending: that write is not in the store
PersistenceFailureHandlingWitness ==
    /\ finalizer.state = "raised"
    /\ finalizer.idx < Len(pending_writes)
    /\ ~is_shutting_down
    /\ Abandoned(finalizer.idx)

----------------------------------------------------------------------------
(* Plan progress *)

PlanActive == plan_tracker.active
ItemCount == Len(plan_tracker.items)

----------------------------------------------------------------------------
(* DatabaseManager.execute, fetchall, fetchone: the retry loop *)

\* what one attempt may end with: success, or an exception of a class with
\* a text
Raised(class, text) == [class |-> class, text |-> text]
Succeeded == Raised("none", {})
AttemptOutcomes ==
    {Succeeded,
     Raised("OperationalError", {"database", "is", "locked"}),
     Raised("OperationalError", {"Database", "is", "BUSY"}),
     Raised("OperationalError", {"disk", "is", "full"}),
     Raised("ProgrammingError", {"Cannot", "operate", "on", "a", "closed", "database"}),
     Raised("ProgrammingError", {"Incorrect", "number", "of", "bindings"}),
     Raised("IntegrityError", {"constraint", "failed"})}

\* str.lower() on the words of the error texts
LowerWord(word) ==
    CASE word = "BUSY" -> "busy"
      [] word = "Database" -> "database"
      [] word = "Cannot" -> "cannot"
      [] word = "Incorrect" -> "incorrect"
      [] OTHER -> word
LowerText(text) == {LowerWord(word) : word \in text}

_is_locked_error(exc) == "locked" \in LowerText(exc.text) \/ "busy" \in LowerText(exc.text)
IsClosedError(exc) == "closed" \in LowerText(exc.text)

\* what the loop returns when it runs out of attempts: execute and fetchone
\* None, fetchall []
Fallthrough(op) == IF op = "fetchall" THEN "empty" ELSE "None"

\* a slip: the twentieth locked attempt is followed by one more
IsLastAttemptNever(attempt) == FALSE

\* "if attempt == retries - 1"
IsLastAttempt(attempt) == attempt = LOCK_RETRIES - 1

\* a task calls execute, fetchall or fetchone: "for attempt in range(retries)"
QueryBegin(op) ==
    /\ db_query.pc \in {"idle", "returned", "raised"}
    /\ db_query' = [NoQuery EXCEPT !.op = op, !.pc = "trying"]

\* one pass of the loop body: get_db, the statement (and commit), and the
\* except clauses
QueryAttempt(exc) ==
    /\ db_query.pc = "trying"
    /\ LET q == [db_query EXCEPT !.tries = @ + 1, !.last = exc]
       IN db_query' =
             IF exc = Succeeded
             THEN [q EXCEPT !.pc = "returned",
                            !.committed = (q.op = "execute"),
                            !.result = IF q.op = "execute" THEN "None" ELSE "rows"]
             ELSE IF exc.class = "ProgrammingError"
             THEN IF ~IsClosedError(exc)
                  THEN [q EXCEPT !.pc = "raised"]
                  ELSE IF q.attempt + 1 < LOCK_RETRIES
                  THEN [q EXCEPT !.attempt = @ + 1]
                  ELSE [q EXCEPT !.attempt = @ + 1, !.pc = "returned",
                                 !.result = Fallthrough(q.op)]
             ELSE IF exc.class = "OperationalError"
             THEN IF ~_is_locked_error(exc) \/ IsLastAttempt(q.attempt)
                  THEN [q EXCEPT !.pc = "raised"]
                  ELSE [q EXCEPT !.pc = "sleeping"]
             ELSE [q EXCEPT !.pc = "raised"]

\* "await asyncio.sleep(min(0.05 * (attempt + 1), 1.0))" is over: the next
\* pass of the loop, or none is left
QueryBackoff ==
    /\ db_query.pc = "sleeping"
    /\ db_query' =
          IF db_query.attempt + 1 < LOCK_RETRIES
          THEN [db_query EXCEPT !.attempt = @ + 1, !.sleeps = @ + 1, !.pc = "trying"]
          ELSE [db_query EXCEPT !.attempt = @ + 1, !.sleeps = @ + 1, !.pc = "returned",
                                !.result = Fallthrough(db_query.op)]

NotQuery == UNCHANGED <<sigVars, tmVars, session_tracker, chatVars, appVars, runVars,
                        storeVars, dbVars, workerVars, read_log, historyVars>>

QueryStart == (\E op \in {"execute", "fetchall", "fetchone"} : QueryBegin(op)) /\ NotQuery
QueryTry == (\E exc \in AttemptOutcomes : QueryAttempt(exc)) /\ NotQuery
QuerySleep == QueryBackoff /\ NotQuery

QueryNext ==
    \/ QueryStart
    \/ QueryTry
    \/ QuerySleep

SpecQuery == RoundInit /\ [][QueryNext]_vars

QueryOver == db_query.pc \in {"returned", "raised"}

\* C32: execute, fetchall and fetchone make at most LOCK_RETRIES attempts; an
\* attempt that fails with a locked or busy error is followed by a backoff
\* and another attempt unless it was the twentieth, which raises; an
\* operational error that is not locked or busy and a programming error that
\* is not "closed" raise at once; nothing but a locked or busy error is
\* followed by a backoff.
BoundedLockRetry ==
    /\ [](/\ db_query.tries <= LOCK_RETRIES
          /\ db_query.attempt <= LOCK_RETRIES
          /\ db_query.sleeps < LOCK_RETRIES
          /\ QueryOver => db_query.tries >= 1
          /\ db_query.pc = "sleeping" =>
                _is_locked_error(db_query.last) /\ db_query.attempt < LOCK_RETRIES - 1)
    /\ [][(db_query.pc = "trying" /\ db_query'.tries = db_query.tries + 1) =>
             LET exc == db_query'.last
             IN /\ (exc.class = "OperationalError" /\ _is_locked_error(exc)) =>
                      db_query'.pc = IF db_query.attempt = LOCK_RETRIES - 1
                                     THEN "raised" ELSE "sleeping"
                /\ (exc.class = "OperationalError" /\ ~_is_locked_error(exc)) =>
                      db_query'.pc = "raised"
                /\ (exc.class = "ProgrammingError" /\ ~IsClosedError(exc)) =>
                      db_query'.pc = "raised"]_vars
    /\ [][db_query.pc = "sleeping" =>
             (/\ db_query'.pc = "trying"
              /\ db_query'.attempt = db_query.attempt + 1
              /\ db_query'.tries = db_query.tries)]_vars

\* nineteen locked attempts were slept over and the twentieth raised
BoundedLockRetryWitness ==
    /\ db_query.pc = "raised"
    /\ db_query.tries = LOCK_RETRIES
    /\ db_query.sleeps = LOCK_RETRIES - 1
    /\ _is_locked_error(db_query.last)

\* C37: execute returns normally only if the statement was executed and
\* committed on some attempt; every other sequence of attempt outcomes ends
\* with a raised error.
NoSilentWriteLoss ==
    (db_query.op = "execute" /\ db_query.pc = "returned") => db_query.committed

----------------------------------------------------------------------------
(* Storage: the bound of the message cache *)

\* the session first reads conversations 1, 2, ... one after the other until
\* the cache is one short of its bound; then the calls are on these
LruPool == {1, MAX_MESSAGES_CACHE_CONVERSATIONS, MAX_MESSAGES_CACHE_CONVERSATIONS + 1}
LruOps == {"get_messages", "save_message", "delete_all_conversations",
           "delete_conversations_except"}

Warm == Len(read_log) >= MAX_MESSAGES_CACHE_CONVERSATIONS - 1

NotCache == UNCHANGED <<sigVars, tmVars, session_tracker, chatVars, appVars, runVars,
                        dbVars, workerVars, db_query, historyVars>>

\* one get_messages of a conversation not read before, from call to return
\* with no other call in between
LruWarmUp ==
    /\ ~Warm
    /\ LET conv == Len(read_log) + 1 IN
          /\ _messages_cache' = CachePut(_messages_cache, conv, SelectMessages(conv))
          /\ store_read' = [op |-> "get_messages", conv |-> conv,
                            result |-> SelectMessages(conv),
                            uncached |-> SelectMessages(conv), cached |-> FALSE]
          /\ read_log' = Append(read_log, conv)
    /\ UNCHANGED <<tables, _conversations_cache, store_calls, store_clock>>
    /\ NotCache

LruStart ==
    /\ Warm
    /\ \E op \in LruOps, conv \in LruPool : StoreBegin(op, conv)
    /\ UNCHANGED read_log
    /\ NotCache

\* a step of get_messages; the read is logged when it returns
LruGet ==
    /\ \E c \in 1..Len(store_calls) :
          /\ get_messages(c)
          /\ read_log' = IF store_calls'[c].pc = "done"
                         THEN Append(read_log, store_calls[c].conv)
                         ELSE read_log
    /\ NotCache

LruNext ==
    \/ LruWarmUp
    \/ LruStart
    \/ LruGet
    \/ Save
    \/ DeleteAll
    \/ DeleteExcept

SpecLru == RoundInit /\ [][LruNext]_vars

CachedIds == {_messages_cache[i].id : i \in 1..Len(_messages_cache)}

\* the place in read_log of the last read of a conversation
LastRead(conv) ==
    LET reads == {i \in 1..Len(read_log) : read_log[i] = conv}
    IN IF reads = {} THEN 0 ELSE CHOOSE i \in reads : \A j \in reads : j <= i

\* C33: the message cache never holds more than
\* MAX_MESSAGES_CACHE_CONVERSATIONS conversations, each once; a get_messages
\* that returns leaves its conversation cached, and a conversation it drops
\* from the cache is the least recently read of those cached, dropped only
\* from a full cache.
MessageCacheBound ==
    /\ [](/\ Len(_messages_cache) <= MAX_MESSAGES_CACHE_CONVERSATIONS
          /\ Cardinality(CachedIds) = Len(_messages_cache)
          /\ \A conv \in CachedIds : LastRead(conv) > 0)
    /\ [][read_log' # read_log =>
             (/\ read_log'[Len(read_log')] \in CachedIds'
              /\ \A conv \in CachedIds \ CachedIds' :
                    /\ Len(_messages_cache) = MAX_MESSAGES_CACHE_CONVERSATIONS
                    /\ read_log'[Len(read_log')] \notin CachedIds
                    /\ \A other \in CachedIds : LastRead(conv) <= LastRead(other)
              /\ Cardinality(CachedIds \ CachedIds') <= 1)]_vars

\* conversation 1 was read again before two more conversations were: the
\* full cache dropped conversation 2 and kept conversation 1
MessageCacheBoundWitness ==
    /\ Len(_messages_cache) = MAX_MESSAGES_CACHE_CONVERSATIONS
    /\ 1 \in CachedIds
    /\ 2 \notin CachedIds
    /\ (MAX_MESSAGES_CACHE_CONVERSATIONS + 1) \in CachedIds

----------------------------------------------------------------------------
(* ToolManager._validate_arguments: keys outside the declared properties *)

UndeclaredKeys(name, arguments) ==
    IF arguments.t = "obj" THEN DictKeys(arguments.v) \ DOMAIN Schema(name).properties
    ELSE {}

\* C34: for every registered tool, also one that declares no properties, an
\* arguments object with a key outside the declared properties is rejected by
\* _validate_arguments with an "Error:" message before the handler is
\* dispatched, and no duration is recorded for the invocation.
UnknownKeysRejected ==
    (tm_call.name \in RegisteredTools /\ UndeclaredKeys(tm_call.name, tm_call.arguments) # {})
        => /\ tm_exec.path = "validation_error"
           /\ StartsWith(tm_exec.result, ErrorPrefix)
           /\ ~tm_exec.called
           /\ ~tm_exec.ran

----------------------------------------------------------------------------
(* The store as a mirror of the transcript *)

\* storage.get_messages(conversation_id) of the conversation on screen
Reloaded ==
    [i \in 1..Len(RowsOf(conversation_id)) |-> MsgOf(RowsOf(conversation_id)[i])]

\* a turn is over, its writes are saved, and no command replaced the
\* transcript meanwhile
TurnPersisted ==
    /\ loop_pc = "off"
    /\ turn_pc = "idle"
    /\ finalizer.state = "saved"
    /\ commands = 0
    /\ ~is_shutting_down

SameMessage(a, b) ==
    /\ a.role = b.role
    /\ a.content = b.content
    /\ a.tool_calls = b.tool_calls
    /\ a.reasoning = b.reasoning
    /\ a.tool_call_id = b.tool_call_id

\* C35: once a turn has ended and its writes are saved, get_messages returns,
\* message for message, the role, content, tool_calls, reasoning and
\* tool_call_id of the transcript, and every tool message of the reloaded
\* conversation refers to a tool call of an assistant message before it.
DurableMirror ==
    TurnPersisted =>
        /\ Len(Reloaded) = Len(messages)
        /\ \A i \in 1..Len(messages) : SameMessage(Reloaded[i], messages[i])
        /\ \A i \in 1..Len(Reloaded) :
              Reloaded[i].role = "tool" => RefersBack(Reloaded, i)

----------------------------------------------------------------------------
(* Storage: the recent user inputs behind their cache *)

MaxHistoryCalls == 4
MAX_RECENT_HISTORY_CACHE == 500
MaxHistoryLimit == 1000

\* what the user typed, and a row whose content is blank
HistoryContents == {"a", "b", "   "}
HistoryLimits == {1, 2}

HistoryCall(op, content, limit) ==
    [op |-> op, content |-> content, limit |-> limit, pc |-> "start", rows |-> <<>>]

\* "max(1, min(int(limit), 1000))"
SafeLimit(limit) == Max(1, Min(limit, MaxHistoryLimit))

LastOf(rows, n) == SubSeq(rows, Max(1, Len(rows) - n + 1), Len(rows))
FirstOf(rows, n) == SubSeq(rows, 1, Min(n, Len(rows)))

\* SELECT content FROM history WHERE content IS NOT NULL AND TRIM(content) != ''
\* ORDER BY id DESC LIMIT ?, then reversed(rows), and at most
\* MAX_RECENT_HISTORY_CACHE of them
SelectRecent(limit) ==
    LastOf(LastOf(SelectSeq(history, LAMBDA content : Strip(content) # ""),
                  SafeLimit(limit)),
           MAX_RECENT_HISTORY_CACHE)

NotHistory == UNCHANGED <<sigVars, tmVars, session_tracker, chatVars, appVars, runVars,
                          storeVars, dbVars, workerVars, db_query, read_log>>

HistoryGoes(c, pc) == history_calls' = [history_calls EXCEPT ![c].pc = pc]

\* a task calls save_message(conversation_id, "user", content) or
\* get_recent_user_history(limit)
HistoryBegin(op, content, limit) ==
    /\ Len(history_calls) < MaxHistoryCalls
    /\ history_calls' = Append(history_calls, HistoryCall(op, content, limit))
    /\ UNCHANGED <<history, _recent_user_history_cache, history_read>>

\* save_message with role "user": the INSERT INTO history, and on resumption
\* self._recent_user_history_cache = None
SaveUserInput(c) ==
    /\ history_calls[c].op = "save_message"
    /\ \/ /\ history_calls[c].pc = "start"
          /\ HistoryGoes(c, "inserted")
          /\ history' = Append(history, history_calls[c].content)
          /\ UNCHANGED <<_recent_user_history_cache, history_read>>
       \/ /\ history_calls[c].pc = "inserted"
          /\ HistoryGoes(c, "done")
          /\ _recent_user_history_cache' = NoHistoryCache
          /\ UNCHANGED <<history, history_read>>

\* get_recent_user_history(limit): the head of the cached list, or the rows
\* fetched and, on resumption, cached and returned. A read that went to the
\* table is the read with the cache disabled.
get_recent_user_history(c) ==
    /\ history_calls[c].op = "get_recent_user_history"
    /\ \/ /\ history_calls[c].pc = "start"
          /\ IF _recent_user_history_cache.valid
             THEN /\ HistoryGoes(c, "done")
                  /\ history_read' =
                        [limit |-> history_calls[c].limit,
                         result |-> FirstOf(_recent_user_history_cache.rows,
                                            SafeLimit(history_calls[c].limit)),
                         uncached |-> SelectRecent(history_calls[c].limit),
                         cached |-> TRUE]
             ELSE /\ history_calls' =
                        [history_calls EXCEPT
                            ![c].pc = "fetched",
                            ![c].rows = SelectRecent(history_calls[c].limit)]
                  /\ UNCHANGED history_read
          /\ UNCHANGED <<history, _recent_user_history_cache>>
       \/ /\ history_calls[c].pc = "fetched"
          /\ HistoryGoes(c, "done")
          /\ _recent_user_history_cache' = [valid |-> TRUE, rows |-> history_calls[c].rows]
          /\ history_read' = [limit |-> history_calls[c].limit,
                              result |-> history_calls[c].rows,
                              uncached |-> history_calls[c].rows, cached |-> FALSE]
          /\ UNCHANGED history

HistoryStart ==
    /\ \/ \E content \in HistoryContents : HistoryBegin("save_message", content, 0)
       \/ \E limit \in HistoryLimits : HistoryBegin("get_recent_user_history", "", limit)
    /\ NotHistory
HistorySave == (\E c \in 1..Len(history_calls) : SaveUserInput(c)) /\ NotHistory
HistoryGet == (\E c \in 1..Len(history_calls) : get_recent_user_history(c)) /\ NotHistory

HistoryNext ==
    \/ HistoryStart
    \/ HistorySave
    \/ HistoryGet

SpecHistory == RoundInit /\ [][HistoryNext]_vars

\* C36: every get_recent_user_history(limit), whatever the limits of the
\* calls before it and the user messages saved in between, returns what it
\* returns with the cache disabled: the most recent min(limit, 1000)
\* non-blank inputs, oldest first.
HistoryCacheTransparency == history_read.result = history_read.uncached

----------------------------------------------------------------------------
(* The queue of inputs in both modes *)

\* _run_plan_turn after generate_plan, as far as runs are concerned (what it
\* appends to the transcript and the tracker is PlanGenerated's and
\* ConfirmPlan's): without a plan the run starts; with one the modal is
\* shown, and its decision either schedules the run (call_after_refresh) or
\* returns without one
_run_plan_turn ==
    \/ /\ turn_pc = "planning"
       /\ \E has_plan \in BOOLEAN :
             IF has_plan
             THEN turn_pc' = "confirming" /\ UNCHANGED <<is_streaming, workers>>
             ELSE turn_pc' = "idle" /\ _start_ai_run(workers)
    \/ /\ turn_pc = "confirming"
       /\ \E approved \in BOOLEAN : turn_pc' = IF approved THEN "scheduled" ELSE "idle"
       /\ UNCHANGED <<is_streaming, workers>>
    \/ /\ turn_pc = "scheduled"
       /\ turn_pc' = "idle"
       /\ _start_ai_run(workers)

QueueFrame ==
    UNCHANGED <<http_service, mode, messages, storage, plan_tracker, active_agent,
                notifications, loop_pc, pending_writes, tool_calls, tasks, arrival,
                compact_pc, turn, round, compaction, session_tracker,
                sigVars, tmVars, chatVars, runVars, storeVars, dbVars, persistVars>>

\* the user types while no plan turn is in progress
QueueInput == turn_pc = "idle" /\ handle_input /\ QueueFrame
QueuePlanTurn == _run_plan_turn /\ UNCHANGED pending_user_queue /\ QueueFrame
QueueOver == (\E w \in 1..Len(workers) : RunAiOver(w)) /\ QueueFrame

QueueNext ==
    \/ QueueInput
    \/ Cycle
    \/ QueuePlanTurn
    \/ WorkerBegins
    \/ WorkerStreamOver
    \/ WorkerToolsOver
    \/ WorkerCancelled
    \/ QueueOver
    \/ Cancel

SpecQueue == RoundInit /\ [][QueueNext]_vars

\* nothing is left that would act without the user: no worker is alive and
\* no plan turn is in progress
NothingPending ==
    /\ turn_pc = "idle"
    /\ \A w \in 1..Len(workers) : ~Live(w)

\* C38: every input queued while a run was streaming is submitted as its own
\* turn without any further action of the user, in both modes and however
\* the turn before it ended: once no run and no plan turn is in progress the
\* queue is empty.
QueuedInputsServed == NothingPending => pending_user_queue = <<>>

----------------------------------------------------------------------------
(* The tool messages of a round in the transcript *)

\* the assistant messages of the transcript that carry tool calls
CallingMessages ==
    {i \in 1..Len(messages) :
        messages[i].role = "assistant" /\ messages[i].tool_calls # <<>>}

\* the position of the last tool message that answers a call of messages[i]
\* (i itself while there is none)
LastAnswer(i) ==
    LET ids == {messages[i].tool_calls[k].id : k \in 1..Len(messages[i].tool_calls)}
        answers == {j \in (i + 1)..Len(messages) :
                       messages[j].role = "tool" /\ messages[j].tool_call_id \in ids}
    IN IF answers = {} THEN i ELSE CHOOSE j \in answers : \A k \in answers : k <= j

\* C39: in the in-memory transcript nothing but tool messages lies between an
\* assistant message that carries tool calls and the last of the tool
\* messages for those calls, also in a round with an applied agent handoff.
ToolResultsContiguous ==
    \A i \in CallingMessages :
        \A j \in (i + 1)..LastAnswer(i) : messages[j].role = "tool"

----------------------------------------------------------------------------
(* The life of a plan tracker *)

\* C40: a plan tracker is active only from the approval of its plan to the end
\* of the turn that executes it: once get_response has returned, however it
\* ended, and no approved run is waiting to start, no tracker is active (so no
\* later turn can advance or finalize an earlier plan).
PlanTrackerScope == turn_pc = "idle" /\ loop_pc = "off" => ~PlanActive

====
